---- MODULE Spec2Model ----
(***************************************************************************)
(* Upload pipeline of the grant-proposal front end.                        *)
(*                                                                         *)
(*   GrantAPI.uploadDocuments / uploadDocumentsChunked   (lib/api.ts)      *)
(*   ChunkedUploader.uploadFile, needsChunkedUpload, uploadFiles           *)
(*   QuickProposalForm: handleFileUpload, generateProposal                 *)
(*   FullProposalBuilder: handleFileUpload                                 *)
(*   POST of the upload-single route                                       *)
(*                                                                         *)
(* Spec runs the three upload entry points; FormSpec runs                  *)
(* QuickProposalForm on top of uploadDocuments; UploadsSpec runs the       *)
(* handleFileUpload calls of one form side by side; ProxySpec runs the     *)
(* route handler against the backend; UploadFileSpec runs uploadFile       *)
(* alone, with weak fairness of the steps of the running call.             *)
(*                                                                         *)
(* Every fetch is two steps: the request is put in flight, and the proxy   *)
(* (the environment) answers it with success, a non-2xx status or a        *)
(* network error.  Between two awaits the JavaScript code runs atomically. *)
(***************************************************************************)
EXTENDS Integers, Sequences, FiniteSets, TLC

\* ------------------------------------------------------------------ bounds

\* Largest number of files in one batch given to an entry point.
MaxFiles == 2

\* Bound on the handleFileUpload calls of one form.
MaxUploads == 2

\* ------------------------------------------------------- program constants

MB == 1024 * 1024

\* dashboard.tsx:227
CHUNK_SIZE == 5 * 1024 * 1024
\* dashboard.tsx:228
MAX_RETRIES == 3
\* dashboard.tsx:388
MAX_SIMPLE_UPLOAD == 25 * 1024 * 1024
\* lib/api.ts (src/unnamed/part_003):149-151
MAX_FILE_SIZE == 500 * 1024 * 1024
MAX_TOTAL_SIZE == 500 * 1024 * 1024
CLOUD_RUN_LIMIT == 30 * 1024 * 1024
\* dashboard.tsx:305, setTimeout(resolve, 1000 * retries)
BACKOFF_MS == 1000

\* ------------------------------------------------------------------ inputs

\* File names; the k-th file of a batch is named Names[k].
Names == <<"a.pdf", "b.pdf", "c.pdf", "d.pdf">>

\* File sizes (bytes) of the batches handed to uploadDocuments: around the
\* 30 MB and 500 MB thresholds.
BatchSizes == {1, 20 * MB, 25 * MB, 25 * MB + 1, 260 * MB, 500 * MB + 1}

\* File sizes (bytes) of the batches handed to uploadFiles: around the 25 MB
\* threshold (a file of 25 MB + 1 byte is uploaded in 6 chunks).
UploadFilesSizes == {20 * MB, 25 * MB, 25 * MB + 1}

\* File sizes (bytes) handed directly to ChunkedUploader.uploadFile: around
\* the chunk boundaries.
ChunkedSizes == {0, 1, CHUNK_SIZE - 1, CHUNK_SIZE, CHUNK_SIZE + 1,
                 2 * CHUNK_SIZE, 3 * CHUNK_SIZE + 7}

\* Session tokens the proxy may issue at init, and URLs finalize may return.
UploadIds == {"u1", "u2"}
Urls == {"https://store/obj"}

\* The onProgress argument is absent or set; a set callback returns or throws.
Callbacks == {"none", "set"}

\* Non-2xx statuses the proxy may answer with.
HttpErrors == {413, 500}

\* Sizes of the files picked in the proposal forms.
FormSizes == {10 * MB, 120 * MB, 500 * MB + 1}

\* Texts a response body may carry.
ErrorTexts == {"unsupported format", "quota exceeded"}

File(k, s) == [name |-> Names[k], size |-> s]

RECURSIVE BatchesOfLen(_, _)
BatchesOfLen(n, sizes) ==
    IF n = 0 THEN {<<>>}
    ELSE {Append(b, File(n, s)) : b \in BatchesOfLen(n - 1, sizes), s \in sizes}

Batches(sizes) == UNION {BatchesOfLen(n, sizes) : n \in 0..MaxFiles}

\* ----------------------------------------------------------- pure helpers

RECURSIVE SumSizes(_)
\* files.reduce((sum, file) => sum + file.size, 0)
SumSizes(fs) == IF fs = <<>> THEN 0 ELSE fs[1].size + SumSizes(Tail(fs))

Min(a, b) == IF a < b THEN a ELSE b

\* Math.floor in place of Math.ceil: the last, partial chunk is dropped.
TotalChunks_Mut(totalBytes) == totalBytes \div CHUNK_SIZE

\* Math.ceil(totalBytes / CHUNK_SIZE)
TotalChunks(totalBytes) == (totalBytes + CHUNK_SIZE - 1) \div CHUNK_SIZE

\* const start = chunkIndex * CHUNK_SIZE
ChunkStart(chunkIndex) == chunkIndex * CHUNK_SIZE

\* const end = Math.min(start + CHUNK_SIZE, totalBytes)
ChunkEnd(startByte, totalBytes) == Min(startByte + CHUNK_SIZE, totalBytes)

\* <<quotient, remainder>> of a fraction doubled, resp. of the sum of two
\* fractions, over the denominator t (every intermediate value stays < 2 * t).
FracDouble(qr, t) ==
    LET d == 2 * qr[2]
    IN IF d >= t THEN <<2 * qr[1] + 1, d - t>> ELSE <<2 * qr[1], d>>

FracAdd(x, y, t) ==
    LET d == x[2] + y[2]
    IN IF d >= t THEN <<x[1] + y[1] + 1, d - t>> ELSE <<x[1] + y[1], d>>

\* The bytes of the chunk just sent reported in place of the cumulative bytes.
Percentage_Mut(uploadedBytes, totalBytes) ==
    LET sent == Min(uploadedBytes, CHUNK_SIZE)
    IN (200 * sent + totalBytes) \div (2 * totalBytes)

\* Math.round((uploadedBytes / totalBytes) * 100), round half up, for
\* totalBytes > 0: 100 = 64 + 32 + 4.
Percentage(uploadedBytes, totalBytes) ==
    LET x1  == <<uploadedBytes \div totalBytes, uploadedBytes % totalBytes>>
        x2  == FracDouble(x1, totalBytes)
        x4  == FracDouble(x2, totalBytes)
        x8  == FracDouble(x4, totalBytes)
        x16 == FracDouble(x8, totalBytes)
        x32 == FracDouble(x16, totalBytes)
        x64 == FracDouble(x32, totalBytes)
        qr  == FracAdd(FracAdd(x64, x32, totalBytes), x4, totalBytes)
    IN IF 2 * qr[2] >= totalBytes THEN qr[1] + 1 ELSE qr[1]

\* (bytes / 1024 / 1024).toFixed(2), as the number of hundredths of a MB.
ToFixed2MB(bytes) ==
    LET whole == bytes \div MB
        rest  == bytes % MB
        h     == (rest * 100) \div MB
        hr    == (rest * 100) % MB
    IN whole * 100 + h + (IF 2 * hr >= MB THEN 1 ELSE 0)

\* The 30 MB platform limit used as the per-file cutoff.
needsChunkedUpload_Mut(file) == file.size > CLOUD_RUN_LIMIT

\* needsChunkedUpload(file): file.size > MAX_SIMPLE_UPLOAD
needsChunkedUpload(file) == file.size > MAX_SIMPLE_UPLOAD

\* The loop test without !success: an accepted chunk is POSTed again.
RetryLoopContinues_Mut(succ, retr) == retr < MAX_RETRIES

\* while (!success && retries < MAX_RETRIES)
RetryLoopContinues(succ, retr) == ~succ /\ retr < MAX_RETRIES

\* > in place of >=: the third failure does not throw.
RetriesExhausted_Mut(retr) == retr > MAX_RETRIES

\* if (retries >= MAX_RETRIES) throw ...
RetriesExhausted(retr) == retr >= MAX_RETRIES

\* ------------------------------------------------------------------ errors

\* An Error by what its message is built from: the kind of text, the file
\* name and the number (status, chunk number, size) it interpolates, and the
\* response body it quotes ("" when it quotes none).
NoError == [kind |-> "none", name |-> "", n |-> 0, body |-> ""]
Err(kind, name, n) == [kind |-> kind, name |-> name, n |-> n, body |-> ""]
ErrBody(kind, name, n, body) ==
    [kind |-> kind, name |-> name, n |-> n, body |-> body]

\* ---------------------------------------------------------------- requests

Req(ep, id, idx, s, e, fs) ==
    [ep |-> ep, uploadId |-> id, chunkIndex |-> idx, start |-> s, end |-> e,
     files |-> fs]

InitReq == Req("/api/upload/init", "", -1, 0, 0, <<>>)
ChunkReq(id, idx, s, e) == Req("/api/upload/chunk", id, idx, s, e, <<>>)
FinalizeReq(id) == Req("/api/upload/finalize", id, -1, 0, 0, <<>>)

\* ------------------------------------------------------------------- state

VARIABLES
    entry,        \* the entry point running: "idle", "uploadFile", "uploadFiles", "uploadDocuments"
    pc,           \* position of the running code
    files,        \* the batch: sequence of [name, size]
    fileIdx,      \* cursor of `for (const file of files)` (1-based)
    callback,     \* the caller's onProgress argument: "none" or "set"
    inflight,     \* requests issued and not yet answered
    \* locals of ChunkedUploader.uploadFile
    fileName, totalBytes, totalChunks, uploadId, chunkIndex, start, end,
    success, retries,
    delay,        \* ms of the pending setTimeout, 0 when none
    result,       \* ChunkedUploadResult of the last uploadFile
    results,      \* uploadFiles / uploadDocumentsChunked: results array
    errors,       \* uploadFiles: errors array
    ret,          \* settlement of the entry point's promise
    \* history of the current chunk session, as the proxy sees it
    issuedId,     \* uploadId the proxy returned at init ("" before)
    posted,       \* chunk indices POSTed so far
    postsAt,      \* number of POSTs of the highest index POSTed
    failsAt,      \* number of failed POSTs of the highest index POSTed
    accepted,     \* <<index, start, end>> of the chunks the proxy accepted
    progressLog,  \* percentages delivered to the uploader's onProgress
    initFailed,   \* the init call failed
    nFinalize,    \* number of finalize calls issued
    nChunkPosts,  \* number of chunk POSTs issued, all indices together
    nInit,        \* number of init calls issued
    \* history of the running uploadDocuments call
    answer,       \* the failure the proxy last answered with (NoError if none)
    nPosts,       \* POSTs the call has issued
    \* QuickProposalForm: component state
    handling,     \* a handleFileUpload call awaits uploadDocuments
    isUploading,
    uploadProgress,   \* file name -> percentage
    uploadedFiles,    \* formData.uploadedFiles: sequence of [name, url, status]
    error,            \* the message shown, "" when none
    uploadStatus,     \* 'none' | 'uploading' | 'success' | 'failed'
    isGenerating,
    generatedProposal,    \* a proposal has been generated
    proposalData,         \* the request of generateQuickProposal in flight
    loggedMethod,         \* const method of the last successful upload
    nUploads,             \* handleFileUpload calls made so far
    lastAnswer,           \* the failure answered to the last settled upload
    \* the forms with their handleFileUpload calls side by side
    mounted,          \* the form on the page: "none", "quick", "full"
    calls,            \* handleFileUpload calls: [pc, files, i, progress] each
    \* the upload-single route: one run of its POST handler
    proxyPc,          \* "idle", "backend_wait", "responded"
    formData,         \* the files of the request's form data
    backendInflight,  \* requests forwarded to the backend and not yet answered
    timeoutId,        \* the 10 minute timer is armed
    proxyResponse,    \* the NextResponse returned to the browser
    backendAnswer,    \* what the backend answered to the forwarded request
    nForwarded        \* requests forwarded to the backend by this run

uploaderVars == <<fileName, totalBytes, totalChunks, uploadId, chunkIndex,
                  start, end, success, retries, delay, result>>
historyVars == <<issuedId, posted, postsAt, failsAt, accepted, progressLog,
                 initFailed, nFinalize, nChunkPosts, nInit>>
callVars == <<entry, files, callback>>
formVars == <<handling, isUploading, uploadProgress, uploadedFiles, error,
              uploadStatus, isGenerating, generatedProposal, proposalData,
              loggedMethod, nUploads, lastAnswer, mounted, calls>>
proxyVars == <<proxyPc, formData, backendInflight, timeoutId, proxyResponse,
               backendAnswer, nForwarded>>
extVars == <<formVars, proxyVars>>
callHistory == <<answer, nPosts>>
libVars == <<entry, pc, files, fileIdx, callback, inflight, uploaderVars,
             results, errors, ret, historyVars, callHistory>>
vars == <<libVars, extVars>>

NoResult == [success |-> FALSE, uploadId |-> "", fileName |-> "",
             finalUrl |-> "", error |-> NoError, set |-> FALSE]

Pending == [state |-> "pending", success |-> FALSE, method |-> "",
            artifact_ids |-> <<>>, file_urls |-> FALSE, error |-> NoError]

Resolved(succ, method, ids) ==
    [state |-> "resolved", success |-> succ, method |-> method,
     artifact_ids |-> ids, file_urls |-> FALSE, error |-> NoError]

\* The error caught and a success returned in its place.
Rejected_Mut(err) ==
    [state |-> "resolved", success |-> TRUE, method |-> "",
     artifact_ids |-> <<>>, file_urls |-> FALSE, error |-> NoError]

Rejected(err) ==
    [state |-> "rejected", success |-> FALSE, method |-> "",
     artifact_ids |-> <<>>, file_urls |-> FALSE, error |-> err]

\* useState({}) of uploadProgress.
EmptyMap == [n \in {} |-> 0]

\* No generateQuickProposal request is in flight.
NoProposal == [sent |-> FALSE, uploaded_documents |-> <<>>]

\* A response of the route: its status and JSON body. The body is either the
\* backend's JSON passed on (json) or {success: false, error, details}, whose
\* error is `Backend error: ${n}` or 'Proxy server error'.
NextResponseJson(status, body) == [status |-> status, body |-> body]
NoBody == [success |-> FALSE, error |-> "", n |-> 0, details |-> "", json |-> ""]
NoResponse == NextResponseJson(0, NoBody)

\* What the backend did with a forwarded request: kind "ok" (2xx, JSON body),
\* "not_json" (2xx, a body that is no JSON), "http" (non-2xx status with its
\* text), "rejected" (the fetch failed), "aborted" (the abort signal fired).
BackendAnswer(kind, status, text) ==
    [kind |-> kind, status |-> status, text |-> text]
NoAnswer == BackendAnswer("none", 0, "")

\* A handleFileUpload call by its position ("idle" before it is made, "timer"
\* in the progress loop of FullProposalBuilder, "upload" awaiting
\* uploadDocuments, "over" when it has returned), its newFiles, and the loop
\* variables of the progress loop.
Call(at, fs, i, progress) ==
    [pc |-> at, files |-> fs, i |-> i, progress |-> progress]
NoCall == Call("idle", <<>>, 0, 0)

Init ==
    /\ entry = "idle"
    /\ pc = "idle"
    /\ files = <<>>
    /\ fileIdx = 1
    /\ callback = "none"
    /\ inflight = {}
    /\ fileName = "" /\ totalBytes = 0 /\ totalChunks = 0 /\ uploadId = ""
    /\ chunkIndex = 0 /\ start = 0 /\ end = 0
    /\ success = FALSE /\ retries = 0 /\ delay = 0
    /\ result = NoResult
    /\ results = <<>> /\ errors = <<>>
    /\ ret = Pending
    /\ issuedId = "" /\ posted = {} /\ postsAt = 0 /\ failsAt = 0
    /\ accepted = {} /\ progressLog = <<>>
    /\ initFailed = FALSE /\ nFinalize = 0 /\ nChunkPosts = 0 /\ nInit = 0
    /\ answer = NoError
    /\ nPosts = 0
    /\ handling = FALSE
    /\ isUploading = FALSE
    /\ uploadProgress = EmptyMap
    /\ uploadedFiles = <<>>
    /\ error = ""
    /\ uploadStatus = "none"
    /\ isGenerating = FALSE
    /\ generatedProposal = FALSE
    /\ proposalData = NoProposal
    /\ loggedMethod = ""
    /\ nUploads = 0
    /\ lastAnswer = NoError
    /\ mounted = "none"
    /\ calls = [c \in 1..MaxUploads |-> NoCall]
    /\ proxyPc = "idle"
    /\ formData = <<>>
    /\ backendInflight = {}
    /\ timeoutId = FALSE
    /\ proxyResponse = NoResponse
    /\ backendAnswer = NoAnswer
    /\ nForwarded = 0

\* ------------------------------------------ ChunkedUploader.uploadFile

\* The uploader was constructed with a callback: uploadFiles always passes
\* its wrapper, a direct caller may pass none.
UploaderHasCallback == entry = "uploadFiles" \/ callback = "set"

\* The wrapper of uploadFiles throws only if the caller's onProgress does.
CallbackMayThrow == callback = "set"

\* uploadFile(file) up to its first await: the locals, then the fetch of
\* initializeUpload.
StartSession(file) ==
    /\ fileName' = file.name
    /\ totalBytes' = file.size
    /\ totalChunks' = TotalChunks(file.size)
    /\ uploadId' = ""
    /\ chunkIndex' = 0 /\ start' = 0 /\ end' = 0
    /\ success' = FALSE /\ retries' = 0 /\ delay' = 0
    /\ result' = NoResult
    /\ inflight' = inflight \cup {InitReq}
    /\ issuedId' = "" /\ posted' = {} /\ postsAt' = 0 /\ failsAt' = 0
    /\ accepted' = {} /\ progressLog' = <<>>
    /\ initFailed' = FALSE /\ nFinalize' = 0 /\ nChunkPosts' = 0 /\ nInit' = 1
    /\ pc' = "init_wait"

\* The uploader and its locals go out of scope; the session's history ends.
SessionGone ==
    /\ fileName' = "" /\ totalBytes' = 0 /\ totalChunks' = 0 /\ uploadId' = ""
    /\ chunkIndex' = 0 /\ start' = 0 /\ end' = 0
    /\ success' = FALSE /\ retries' = 0 /\ delay' = 0
    /\ result' = NoResult
    /\ issuedId' = "" /\ posted' = {} /\ postsAt' = 0 /\ failsAt' = 0
    /\ accepted' = {} /\ progressLog' = <<>>
    /\ initFailed' = FALSE /\ nFinalize' = 0 /\ nChunkPosts' = 0 /\ nInit' = 0

\* The failure result without the file name.
FailureResult_Mut(err) ==
    [success |-> FALSE, uploadId |-> "", fileName |-> "",
     finalUrl |-> "", error |-> err, set |-> TRUE]

\* The outer catch: return {success: false, uploadId: '', fileName, error}.
FailureResult(err) ==
    [success |-> FALSE, uploadId |-> "", fileName |-> fileName,
     finalUrl |-> "", error |-> err, set |-> TRUE]

\* return {success: true, uploadId, fileName, finalUrl}
SuccessResult(url) ==
    [success |-> TRUE, uploadId |-> uploadId, fileName |-> fileName,
     finalUrl |-> url, error |-> NoError, set |-> TRUE]

\* The !response.ok test missing: only a rejected fetch throws.
InitThrows_Mut(resp) == resp.kind = "network"

\* if (!response.ok) throw new Error(`Failed to initialize upload: ${status}`);
\* a rejected fetch throws by itself.
InitThrows(resp) == resp.kind # "ok"

\* The proxy answers the init call: initializeUpload returns result.uploadId,
\* or throws into the outer catch of uploadFile.
InitResponds(resp) ==
    /\ pc = "init_wait"
    /\ InitReq \in inflight
    /\ inflight' = inflight \ {InitReq}
    /\ issuedId' = resp.uploadId
    /\ initFailed' = (resp.kind # "ok")
    /\ IF InitThrows(resp)
       THEN /\ result' = FailureResult(
                    IF resp.kind = "network" THEN Err("network", "", 0)
                    ELSE Err("init_failed", "", resp.status))
            /\ pc' = "returned"
            /\ UNCHANGED <<uploadId, chunkIndex>>
       ELSE /\ uploadId' = resp.uploadId
            /\ chunkIndex' = 0
            /\ pc' = "for"
            /\ UNCHANGED result
    /\ UNCHANGED <<callVars, fileIdx, fileName, totalBytes, totalChunks,
                   start, end, success, retries, delay, results, errors, ret,
                   posted, postsAt, failsAt, accepted, progressLog, nFinalize,
                   nChunkPosts, nInit>>
    /\ UNCHANGED <<callHistory, extVars>>

\* Off by one: the loop stops before the last chunk.
MoreChunks_Mut(idx, total) == idx < total - 1

\* chunkIndex < totalChunks
MoreChunks(idx, total) == idx < total

\* The retry counter declared outside the for loop: a chunk starts with the
\* count its predecessors left.
ForLoop_Mut ==
    /\ pc = "for"
    /\ IF MoreChunks(chunkIndex, totalChunks)
       THEN /\ start' = ChunkStart(chunkIndex)
            /\ end' = ChunkEnd(ChunkStart(chunkIndex), totalBytes)
            /\ success' = FALSE
            /\ pc' = "while"
       ELSE /\ pc' = "finalize"
            /\ UNCHANGED <<start, end, success>>
    /\ UNCHANGED <<callVars, fileIdx, inflight, fileName, totalBytes,
                   totalChunks, uploadId, chunkIndex, retries, delay, result,
                   results, errors, ret, historyVars>>
    /\ UNCHANGED <<callHistory, extVars>>

\* for (let chunkIndex = 0; chunkIndex < totalChunks; chunkIndex++) { start, end, success, retries
ForLoop ==
    /\ pc = "for"
    /\ IF MoreChunks(chunkIndex, totalChunks)
       THEN /\ start' = ChunkStart(chunkIndex)
            /\ end' = ChunkEnd(ChunkStart(chunkIndex), totalBytes)
            /\ success' = FALSE
            /\ retries' = 0
            /\ pc' = "while"
       ELSE /\ pc' = "finalize"
            /\ UNCHANGED <<start, end, success, retries>>
    /\ UNCHANGED <<callVars, fileIdx, inflight, fileName, totalBytes,
                   totalChunks, uploadId, chunkIndex, delay, result, results,
                   errors, ret, historyVars>>
    /\ UNCHANGED <<callHistory, extVars>>

\* uploadChunk(uploadId, chunkIndex, chunk): the form data of the POST.
ChunkFormData(id, idx, s, e) == ChunkReq(id, idx, s, e)

\* while (!success && retries < MAX_RETRIES) { await this.uploadChunk(...)
WhileLoop ==
    /\ pc = "while"
    /\ IF RetryLoopContinues(success, retries)
       THEN /\ inflight' = inflight \cup
                    {ChunkFormData(uploadId, chunkIndex, start, end)}
            /\ posted' = posted \cup {chunkIndex}
            /\ postsAt' = IF chunkIndex \in posted THEN postsAt + 1 ELSE 1
            /\ failsAt' = IF chunkIndex \in posted THEN failsAt ELSE 0
            /\ nChunkPosts' = nChunkPosts + 1
            /\ pc' = "chunk_wait"
            /\ UNCHANGED chunkIndex
       ELSE /\ chunkIndex' = chunkIndex + 1
            /\ pc' = "for"
            /\ UNCHANGED <<inflight, posted, postsAt, failsAt, nChunkPosts>>
    /\ UNCHANGED <<callVars, fileIdx, fileName, totalBytes, totalChunks,
                   uploadId, start, end, success, retries, delay, result,
                   results, errors, ret, issuedId, accepted, progressLog,
                   initFailed, nFinalize, nInit>>
    /\ UNCHANGED <<callHistory, extVars>>

\* The same wait after every failure: setTimeout(resolve, 1000).
CatchChunkError_Mut ==
    /\ retries' = retries + 1
    /\ IF RetriesExhausted(retries + 1)
       THEN /\ result' = FailureResult(Err("chunk_failed", "", chunkIndex + 1))
            /\ pc' = "returned"
            /\ delay' = 0
       ELSE /\ delay' = BACKOFF_MS
            /\ pc' = "backoff"
            /\ UNCHANGED result

\* catch (error) { retries++; if (retries >= MAX_RETRIES) throw ...; await setTimeout(1000 * retries) }
CatchChunkError ==
    /\ retries' = retries + 1
    /\ IF RetriesExhausted(retries + 1)
       THEN /\ result' = FailureResult(Err("chunk_failed", "", chunkIndex + 1))
            /\ pc' = "returned"
            /\ delay' = 0
       ELSE /\ delay' = BACKOFF_MS * (retries + 1)
            /\ pc' = "backoff"
            /\ UNCHANGED result

\* success = true placed after the progress report: a throwing callback
\* leaves it false.
ChunkOk_Mut(throws) ==
    /\ pc = "chunk_wait"
    /\ \E r \in inflight :
         /\ r.ep = "/api/upload/chunk"
         /\ inflight' = inflight \ {r}
         /\ accepted' = accepted \cup {<<r.chunkIndex, r.start, r.end>>}
    /\ success' = ~throws
    /\ progressLog' = IF UploaderHasCallback
                      THEN Append(progressLog, Percentage(end, totalBytes))
                      ELSE progressLog
    /\ throws => UploaderHasCallback /\ CallbackMayThrow
    /\ IF throws
       THEN CatchChunkError
       ELSE /\ pc' = "while"
            /\ UNCHANGED <<retries, delay, result>>
    /\ UNCHANGED <<callVars, fileIdx, fileName, totalBytes, totalChunks,
                   uploadId, chunkIndex, start, end, results, errors, ret,
                   issuedId, posted, postsAt, failsAt, initFailed, nFinalize,
                   nChunkPosts, nInit>>
    /\ UNCHANGED <<callHistory, extVars>>

\* uploadChunk resolved: success = true, the progress report, the log line.
ChunkOk(throws) ==
    /\ pc = "chunk_wait"
    /\ \E r \in inflight :
         /\ r.ep = "/api/upload/chunk"
         /\ inflight' = inflight \ {r}
         /\ accepted' = accepted \cup {<<r.chunkIndex, r.start, r.end>>}
    /\ success' = TRUE
    /\ progressLog' = IF UploaderHasCallback
                      THEN Append(progressLog, Percentage(end, totalBytes))
                      ELSE progressLog
    /\ throws => UploaderHasCallback /\ CallbackMayThrow
    /\ IF throws
       THEN CatchChunkError
       ELSE /\ pc' = "while"
            /\ UNCHANGED <<retries, delay, result>>
    /\ UNCHANGED <<callVars, fileIdx, fileName, totalBytes, totalChunks,
                   uploadId, chunkIndex, start, end, results, errors, ret,
                   issuedId, posted, postsAt, failsAt, initFailed, nFinalize,
                   nChunkPosts, nInit>>
    /\ UNCHANGED <<callHistory, extVars>>

\* uploadChunk threw (fetch rejected, or !response.ok).
ChunkFail ==
    /\ pc = "chunk_wait"
    /\ \E r \in inflight :
         /\ r.ep = "/api/upload/chunk"
         /\ inflight' = inflight \ {r}
    /\ failsAt' = failsAt + 1
    /\ CatchChunkError
    /\ UNCHANGED <<callVars, fileIdx, fileName, totalBytes, totalChunks,
                   uploadId, chunkIndex, start, end, success, results, errors,
                   ret, issuedId, posted, postsAt, accepted, progressLog,
                   initFailed, nFinalize, nChunkPosts, nInit>>
    /\ UNCHANGED <<callHistory, extVars>>

\* The setTimeout of the backoff fires; control returns to the while test.
BackoffElapsed ==
    /\ pc = "backoff"
    /\ delay' = 0
    /\ pc' = "while"
    /\ UNCHANGED <<callVars, fileIdx, inflight, fileName, totalBytes,
                   totalChunks, uploadId, chunkIndex, start, end, success,
                   retries, result, results, errors, ret, historyVars>>
    /\ UNCHANGED <<callHistory, extVars>>

\* The file name sent where the uploadId belongs.
FinalizeBody_Mut(id) == FinalizeReq(fileName)

\* finalizeUpload(uploadId): body JSON.stringify({ uploadId })
FinalizeBody(id) == FinalizeReq(id)

\* const finalUrl = await this.finalizeUpload(uploadId)
Finalize ==
    /\ pc = "finalize"
    /\ inflight' = inflight \cup {FinalizeBody(uploadId)}
    /\ nFinalize' = nFinalize + 1
    /\ pc' = "finalize_wait"
    /\ UNCHANGED <<callVars, fileIdx, uploaderVars, results, errors, ret,
                   issuedId, posted, postsAt, failsAt, accepted, progressLog,
                   initFailed, nChunkPosts, nInit>>
    /\ UNCHANGED <<callHistory, extVars>>

FinalizeOk(url) ==
    /\ pc = "finalize_wait"
    /\ \E r \in inflight :
         /\ r.ep = "/api/upload/finalize"
         /\ inflight' = inflight \ {r}
    /\ result' = SuccessResult(url)
    /\ pc' = "returned"
    /\ UNCHANGED <<callVars, fileIdx, fileName, totalBytes, totalChunks,
                   uploadId, chunkIndex, start, end, success, retries, delay,
                   results, errors, ret, historyVars>>
    /\ UNCHANGED <<callHistory, extVars>>

FinalizeFail(err) ==
    /\ pc = "finalize_wait"
    /\ \E r \in inflight :
         /\ r.ep = "/api/upload/finalize"
         /\ inflight' = inflight \ {r}
    /\ result' = FailureResult(err)
    /\ pc' = "returned"
    /\ UNCHANGED <<callVars, fileIdx, fileName, totalBytes, totalChunks,
                   uploadId, chunkIndex, start, end, success, retries, delay,
                   results, errors, ret, historyVars>>
    /\ UNCHANGED <<callHistory, extVars>>

\* A caller constructs a ChunkedUploader and calls uploadFile(file).
CallUploadFile(file, cb) ==
    /\ pc = "idle"
    /\ entry' = "uploadFile"
    /\ files' = <<file>>
    /\ fileIdx' = 1
    /\ callback' = cb
    /\ StartSession(file)
    /\ UNCHANGED <<results, errors, ret>>
    /\ UNCHANGED <<callHistory, extVars>>

\* The outer catch rethrowing: a failure rejects the promise.
UploadFileReturns_Mut ==
    /\ pc = "returned"
    /\ entry = "uploadFile"
    /\ ret' = IF result.success
              THEN [state |-> "resolved", success |-> TRUE,
                    method |-> "chunked", artifact_ids |-> <<>>,
                    file_urls |-> FALSE, error |-> NoError]
              ELSE Rejected(result.error)
    /\ pc' = "done"
    /\ UNCHANGED <<callVars, fileIdx, inflight, uploaderVars, results, errors,
                   historyVars>>
    /\ UNCHANGED <<callHistory, extVars>>

\* The promise of a direct uploadFile call resolves with the result.
UploadFileReturns ==
    /\ pc = "returned"
    /\ entry = "uploadFile"
    /\ ret' = [state |-> "resolved", success |-> result.success,
               method |-> "chunked", artifact_ids |-> <<>>,
               file_urls |-> FALSE, error |-> result.error]
    /\ pc' = "done"
    /\ UNCHANGED <<callVars, fileIdx, inflight, uploaderVars, results, errors,
                   historyVars>>
    /\ UNCHANGED <<callHistory, extVars>>

\* The answers of the proxy to the init call: {uploadId}, a non-2xx status
\* (whose body carries no uploadId), or no answer at all.
Response(kind, status, id) == [kind |-> kind, status |-> status, uploadId |-> id]

InitResponses ==
    {Response("ok", 200, id) : id \in UploadIds}
    \cup {Response("http", st, "") : st \in HttpErrors}
    \cup {Response("network", 0, "")}

\* The failures of a POST whose response body the client reads: a non-2xx
\* answer with its status and body, or a rejected fetch. The body is the
\* proxy's {success: false, error, details}, given by its details text.
HttpFailures(kind) ==
    {ErrBody(kind, "", st, t) : st \in HttpErrors, t \in ErrorTexts}
    \cup {Err("network", "", 0)}

\* The upload_method of the proxy's JSON ("" when it has none).
UploadMethods == {"", "standard"}

\* What a failed fetch of each endpoint throws: `Failed to ...: ${status}`
\* for a non-2xx answer, the fetch rejection for a network error.
FetchErrors(kind) ==
    {Err(kind, "", st) : st \in HttpErrors} \cup {Err("network", "", 0)}

\* ------------------------------------------------------------ uploadFiles

DirectReq(fs) == Req("/api/upload", "", -1, 0, 0, fs)
SingleReq(f) == Req("/api/upload-single", "", -1, 0, 0, <<f>>)

\* uploadFiles(files, onProgress): results = [], errors = []
CallUploadFiles(batch, cb) ==
    /\ pc = "idle"
    /\ entry' = "uploadFiles"
    /\ files' = batch
    /\ fileIdx' = 1
    /\ callback' = cb
    /\ results' = <<>>
    /\ errors' = <<>>
    /\ pc' = "files_for"
    /\ UNCHANGED <<inflight, uploaderVars, ret, historyVars>>
    /\ UNCHANGED <<callHistory, extVars>>

\* for (const file of files) { if (needsChunkedUpload(file)) ... else fetch('/api/upload') }
\* and, after the loop, return {success: errors.length === 0, results, errors}
UploadFilesLoop ==
    /\ pc = "files_for"
    /\ entry = "uploadFiles"
    /\ IF fileIdx <= Len(files)
       THEN IF needsChunkedUpload(files[fileIdx])
            THEN /\ StartSession(files[fileIdx])
                 /\ UNCHANGED ret
            ELSE /\ inflight' = inflight \cup {DirectReq(<<files[fileIdx]>>)}
                 /\ pc' = "simple_wait"
                 /\ UNCHANGED <<uploaderVars, ret, historyVars>>
       ELSE /\ ret' = Resolved(errors = <<>>, "", <<>>)
            /\ pc' = "done"
            /\ UNCHANGED <<inflight, uploaderVars, historyVars>>
    /\ UNCHANGED <<callVars, fileIdx, results, errors>>
    /\ UNCHANGED <<callHistory, extVars>>

\* const result = await chunkedUploader.uploadFile(file); results.push / errors.push
UploadFilesAfterChunked ==
    /\ pc = "returned"
    /\ entry = "uploadFiles"
    /\ IF result.success
       THEN /\ results' = Append(results,
                   [fileName |-> files[fileIdx].name, method |-> "chunked",
                    uploadId |-> result.uploadId, url |-> result.finalUrl])
            /\ UNCHANGED errors
       ELSE /\ errors' = Append(errors,
                   Err(result.error.kind, files[fileIdx].name, result.error.n))
            /\ UNCHANGED results
    /\ fileIdx' = fileIdx + 1
    /\ pc' = "files_for"
    /\ SessionGone
    /\ UNCHANGED <<callVars, inflight, ret>>
    /\ UNCHANGED <<callHistory, extVars>>

\* response.ok: results.push({fileName, result, method: 'simple'}); onProgress?.(file.name, 100)
\* A throwing onProgress lands in the catch, which pushes to errors as well.
SimpleOk(throws) ==
    /\ pc = "simple_wait"
    /\ \E r \in inflight :
         /\ r.ep = "/api/upload"
         /\ inflight' = inflight \ {r}
    /\ throws => CallbackMayThrow
    /\ results' = Append(results,
            [fileName |-> files[fileIdx].name, method |-> "simple",
             uploadId |-> "", url |-> ""])
    /\ errors' = IF throws
                 THEN Append(errors, Err("callback", files[fileIdx].name, 0))
                 ELSE errors
    /\ fileIdx' = fileIdx + 1
    /\ pc' = "files_for"
    /\ UNCHANGED <<callVars, uploaderVars, ret, historyVars>>
    /\ UNCHANGED <<callHistory, extVars>>

\* !response.ok: errors.push(`${file.name}: ${errorText}`); a rejected fetch:
\* errors.push(`${file.name}: ${error.message}`)
SimpleFail(err) ==
    /\ pc = "simple_wait"
    /\ \E r \in inflight :
         /\ r.ep = "/api/upload"
         /\ inflight' = inflight \ {r}
    /\ errors' = Append(errors, Err(err.kind, files[fileIdx].name, err.n))
    /\ fileIdx' = fileIdx + 1
    /\ pc' = "files_for"
    /\ UNCHANGED <<callVars, uploaderVars, results, ret, historyVars>>
    /\ UNCHANGED <<callHistory, extVars>>

\* ------------------------------------------------- GrantAPI.uploadDocuments

\* The size compared in KB against the cap in bytes.
FileTooLarge_Mut(file) == file.size \div 1024 > MAX_FILE_SIZE

\* if (file.size > MAX_FILE_SIZE)
FileTooLarge(file) == file.size > MAX_FILE_SIZE

\* if (totalSize > MAX_TOTAL_SIZE)
TotalTooLarge(totalSize) == totalSize > MAX_TOTAL_SIZE

\* The limit applied to each file instead of the batch total.
UseChunkedUpload_Mut(fs) == \E i \in 1..Len(fs) : fs[i].size > CLOUD_RUN_LIMIT

\* if (totalSize > CLOUD_RUN_LIMIT) return await this.uploadDocumentsChunked(files)
UseChunkedUpload(fs) == SumSizes(fs) > CLOUD_RUN_LIMIT

\* The first file of the batch over the per-file cap (the for loop throws at it).
FirstTooLarge(fs) ==
    LET idx == {i \in 1..Len(fs) : FileTooLarge(fs[i])}
    IN fs[CHOOSE i \in idx : \A j \in idx : i <= j]

\* The validation of uploadDocuments: the error it throws, NoError if none.
\*   `File "${file.name}" is ${MB}MB. Maximum file size is 500MB.`
\*   `Total upload size is ${MB}MB. Maximum total size is 500MB. ...`
ValidationError(fs) ==
    IF Len(fs) = 0 THEN Err("no_files", "", 0)
    ELSE IF \E i \in 1..Len(fs) : FileTooLarge(fs[i])
    THEN Err("file_too_large", FirstTooLarge(fs).name,
             ToFixed2MB(FirstTooLarge(fs).size))
    ELSE IF TotalTooLarge(SumSizes(fs))
    THEN Err("total_too_large", "", ToFixed2MB(SumSizes(fs)))
    ELSE NoError

\* uploadDocuments(files) is entered: its parameters and locals.
StartUploadDocuments(batch) ==
    /\ pc = "idle"
    /\ entry' = "uploadDocuments"
    /\ files' = batch
    /\ fileIdx' = 1
    /\ callback' = "none"
    /\ results' = <<>>
    /\ errors' = <<>>
    /\ pc' = "ud_validate"
    /\ answer' = NoError
    /\ nPosts' = 0
    /\ UNCHANGED <<inflight, uploaderVars, ret, historyVars>>

\* A caller other than the forms invokes grantAPI.uploadDocuments(batch).
CallUploadDocuments(batch) ==
    /\ StartUploadDocuments(batch)
    /\ UNCHANGED extVars

\* uploadDocuments up to its first await: validation, then the routing.
UploadDocumentsValidate ==
    /\ pc = "ud_validate"
    /\ IF ValidationError(files) # NoError
       THEN /\ ret' = Rejected(ValidationError(files))
            /\ pc' = "done"
            /\ UNCHANGED <<inflight, nPosts>>
       ELSE IF UseChunkedUpload(files)
       THEN /\ pc' = "udc_for"
            /\ UNCHANGED <<ret, inflight, nPosts>>
       ELSE /\ inflight' = inflight \cup {DirectReq(files)}
            /\ nPosts' = nPosts + 1
            /\ pc' = "ud_wait"
            /\ UNCHANGED ret
    /\ UNCHANGED <<callVars, fileIdx, uploaderVars, results, errors,
                   historyVars>>
    /\ UNCHANGED <<answer, extVars>>

RECURSIVE FlatMapIds(_)
\* results.flatMap(r => r.artifact_ids || [])
FlatMapIds(rs) ==
    IF rs = <<>> THEN <<>> ELSE rs[1].artifact_ids \o FlatMapIds(Tail(rs))

\* The combined result without its tag.
ChunkedResponse_Mut(rs) == Resolved(TRUE, "", FlatMapIds(rs))

\* return {success: true, artifact_ids: allArtifactIds, message,
\*         upload_method: 'chunked'}
ChunkedResponse(rs) == Resolved(TRUE, "chunked", FlatMapIds(rs))

\* The requests of all the files issued together, then awaited.
UploadDocumentsChunkedLoop_Mut ==
    /\ pc = "udc_for"
    /\ IF fileIdx <= Len(files)
       THEN /\ inflight' = inflight \cup
                    {SingleReq(files[i]) : i \in fileIdx..Len(files)}
            /\ nPosts' = nPosts + 1
            /\ pc' = "udc_wait"
            /\ UNCHANGED ret
       ELSE /\ ret' = ChunkedResponse(results)
            /\ pc' = "done"
            /\ UNCHANGED <<inflight, nPosts>>
    /\ UNCHANGED <<callVars, fileIdx, uploaderVars, results, errors,
                   historyVars>>
    /\ UNCHANGED <<answer, extVars>>

\* uploadDocumentsChunked: for (const file of files) { fetch('/api/upload-single') }
\* and, after the loop, the combined result.
UploadDocumentsChunkedLoop ==
    /\ pc = "udc_for"
    /\ IF fileIdx <= Len(files)
       THEN /\ inflight' = inflight \cup {SingleReq(files[fileIdx])}
            /\ nPosts' = nPosts + 1
            /\ pc' = "udc_wait"
            /\ UNCHANGED ret
       ELSE /\ ret' = ChunkedResponse(results)
            /\ pc' = "done"
            /\ UNCHANGED <<inflight, nPosts>>
    /\ UNCHANGED <<callVars, fileIdx, uploaderVars, results, errors,
                   historyVars>>
    /\ UNCHANGED <<answer, extVars>>

\* response.ok: results.push(await response.json()); the backend's JSON
\* carries the file's artifact id, or no artifact_ids at all.
UploadSingleOk(hasIds) ==
    /\ pc = "udc_wait"
    /\ \E r \in inflight :
         /\ r.ep = "/api/upload-single"
         /\ inflight' = inflight \ {r}
    /\ results' = Append(results,
            [artifact_ids |-> IF hasIds THEN <<files[fileIdx].name>> ELSE <<>>])
    /\ fileIdx' = fileIdx + 1
    /\ pc' = "udc_for"
    /\ UNCHANGED <<callVars, uploaderVars, errors, ret, historyVars>>
    /\ UNCHANGED <<callHistory, extVars>>

\* The error quoting the response body as well.
UploadSingleError_Mut(name, err) ==
    IF err.kind = "network" THEN err
    ELSE ErrBody(err.kind, name, err.n, err.body)

\* const errorText = await response.text(); console.error(..., errorText);
\* throw new Error(`Upload failed for ${file.name}: ${response.status}`):
\* the body is logged, the Error carries the file name and the status.
UploadSingleError(name, err) ==
    IF err.kind = "network" THEN err ELSE Err(err.kind, name, err.n)

\* The failure of a file noted and the loop going on with the next file.
UploadSingleFail_Mut(err) ==
    /\ pc = "udc_wait"
    /\ \E r \in inflight :
         /\ r.ep = "/api/upload-single"
         /\ inflight' = inflight \ {r}
    /\ answer' = err
    /\ fileIdx' = fileIdx + 1
    /\ pc' = "udc_for"
    /\ UNCHANGED <<callVars, nPosts, uploaderVars, results, errors, ret,
                   historyVars>>
    /\ UNCHANGED extVars

\* !response.ok: throw new Error(`Upload failed for ${file.name}: ${status}`);
\* a rejected fetch is rethrown as it is.
UploadSingleFail(err) ==
    /\ pc = "udc_wait"
    /\ \E r \in inflight :
         /\ r.ep = "/api/upload-single"
         /\ inflight' = inflight \ {r}
    /\ ret' = Rejected(UploadSingleError(files[fileIdx].name, err))
    /\ answer' = err
    /\ UNCHANGED nPosts
    /\ pc' = "done"
    /\ UNCHANGED <<callVars, fileIdx, uploaderVars, results, errors,
                   historyVars>>
    /\ UNCHANGED extVars

\* The direct POST answered 2xx: return await response.json(), the proxy's
\* {success, file_urls?, message?, upload_method}.
UploadDirectOk(succ, method, urls) ==
    /\ pc = "ud_wait"
    /\ \E r \in inflight :
         /\ r.ep = "/api/upload"
         /\ inflight' = inflight \ {r}
    /\ ret' = [Resolved(succ, method, <<>>) EXCEPT !.file_urls = urls]
    /\ pc' = "done"
    /\ UNCHANGED <<callVars, fileIdx, uploaderVars, results, errors,
                   historyVars>>
    /\ UNCHANGED <<callHistory, extVars>>

\* The error without the response body.
UploadDirectError_Mut(err) == Err(err.kind, "", err.n)

\* const errorText = await response.text();
\* throw new Error(`HTTP error! status: ${response.status}, body: ${errorText}`)
\* A rejected fetch is rethrown as it is.
UploadDirectError(err) ==
    IF err.kind = "network" THEN err
    ELSE ErrBody(err.kind, "", err.n, err.body)

\* The failed POST sent again.
UploadDirectFail_Mut(err) ==
    /\ pc = "ud_wait"
    /\ DirectReq(files) \in inflight
    /\ nPosts' = nPosts + 1
    /\ answer' = err
    /\ UNCHANGED <<callVars, pc, fileIdx, inflight, uploaderVars, results,
                   errors, ret, historyVars, extVars>>

\* The direct POST answered non-2xx, or the fetch was rejected.
UploadDirectFail(err) ==
    /\ pc = "ud_wait"
    /\ \E r \in inflight :
         /\ r.ep = "/api/upload"
         /\ inflight' = inflight \ {r}
    /\ ret' = Rejected(UploadDirectError(err))
    /\ answer' = err
    /\ UNCHANGED nPosts
    /\ pc' = "done"
    /\ UNCHANGED <<callVars, fileIdx, uploaderVars, results, errors,
                   historyVars>>
    /\ UNCHANGED extVars

\* -------------------------------------------------------------------- next

\* The settled call and its locals go out of scope.
CallGone ==
    /\ entry' = "idle"
    /\ pc' = "idle"
    /\ files' = <<>>
    /\ fileIdx' = 1
    /\ callback' = "none"
    /\ SessionGone
    /\ results' = <<>> /\ errors' = <<>>
    /\ ret' = Pending
    /\ answer' = NoError
    /\ nPosts' = 0
    /\ UNCHANGED inflight

\* The entry point has settled; the caller may invoke another one.
Settle ==
    /\ pc = "done"
    /\ ~handling
    /\ CallGone
    /\ UNCHANGED extVars

\* The entry points are called when no call is running (pc = "idle").
Next ==
    \/ pc = "idle" /\ \E s \in ChunkedSizes, cb \in Callbacks :
          CallUploadFile(File(1, s), cb)
    \/ \E resp \in InitResponses : InitResponds(resp)
    \/ ForLoop
    \/ WhileLoop
    \/ \E throws \in BOOLEAN : ChunkOk(throws)
    \/ ChunkFail
    \/ BackoffElapsed
    \/ Finalize
    \/ \E url \in Urls : FinalizeOk(url)
    \/ \E err \in FetchErrors("finalize_failed") : FinalizeFail(err)
    \/ UploadFileReturns
    \/ pc = "idle" /\ \E b \in Batches(UploadFilesSizes), cb \in Callbacks :
          CallUploadFiles(b, cb)
    \/ UploadFilesLoop
    \/ UploadFilesAfterChunked
    \/ \E throws \in BOOLEAN : SimpleOk(throws)
    \/ \E err \in FetchErrors("http_error") : SimpleFail(err)
    \/ pc = "idle" /\ \E b \in Batches(BatchSizes) : CallUploadDocuments(b)
    \/ UploadDocumentsValidate
    \/ UploadDocumentsChunkedLoop
    \/ \E hasIds \in BOOLEAN : UploadSingleOk(hasIds)
    \/ \E err \in HttpFailures("upload_failed") : UploadSingleFail(err)
    \/ \E succ \in BOOLEAN, m \in UploadMethods, urls \in BOOLEAN :
          UploadDirectOk(succ, m, urls)
    \/ \E err \in HttpFailures("http_error") : UploadDirectFail(err)
    \/ Settle

Spec == Init /\ [][Next]_vars

\* ------------------------------ ChunkedUploader.uploadFile, run to its end
\*
\* One uploadFile call after another. Every fetch is answered or fails, every
\* timer fires, and the code between two awaits runs when its await settles:
\* a step of the running call that can be taken is eventually taken.

UploadFileSteps ==
    \/ \E resp \in InitResponses : InitResponds(resp)
    \/ ForLoop
    \/ WhileLoop
    \/ \E throws \in BOOLEAN : ChunkOk(throws)
    \/ ChunkFail
    \/ BackoffElapsed
    \/ Finalize
    \/ \E url \in Urls : FinalizeOk(url)
    \/ \E err \in FetchErrors("finalize_failed") : FinalizeFail(err)
    \/ UploadFileReturns

UploadFileNext ==
    \/ pc = "idle" /\ \E s \in ChunkedSizes, cb \in Callbacks :
          CallUploadFile(File(1, s), cb)
    \/ UploadFileSteps
    \/ Settle

UploadFileSpec ==
    Init /\ [][UploadFileNext]_vars /\ WF_vars(UploadFileSteps)

\* ------------------------------------------------- QuickProposalForm

UPLOAD_FAILED_MESSAGE == "Failed to upload files. Please try again."
GENERATE_FAILED_MESSAGE == "Failed to generate proposal. Please try again."
CONNECTION_MESSAGE ==
    "Error connecting to AI service. Please check your connection and try again."

FileNames(fs) == {fs[i].name : i \in 1..Len(fs)}

\* progressMap[file.name] = 0 for each file; then, if totalSize > 30 MB,
\* setUploadProgress(prev => ({...prev, [file.name]: 25})) for each file.
InitialProgress(fs) ==
    [n \in FileNames(fs) |-> IF SumSizes(fs) > 30 * MB THEN 25 ELSE 0]

\* Only the first file of the batch is marked.
FailedFiles_Mut(fs) ==
    [i \in 1..Len(fs) |->
        [name |-> fs[i].name, url |-> "#",
         status |-> IF i = 1 THEN "failed" ELSE "uploaded"]]

\* newFiles.map(file => ({name: file.name, url: '#', status: 'failed'}))
FailedFiles(fs) ==
    [i \in 1..Len(fs) |-> [name |-> fs[i].name, url |-> "#", status |-> "failed"]]

\* newFiles.map(file => ({name: file.name,
\*     url: uploadResponse.file_urls?.[file.name] || '#', status: 'uploaded'}))
UploadedFileData(fs, uploadResponse) ==
    [i \in 1..Len(fs) |->
        [name |-> fs[i].name,
         url |-> IF uploadResponse.file_urls THEN "url" ELSE "#",
         status |-> "uploaded"]]

\* The test taken as passed whenever the promise resolved.
UploadSucceeded_Mut(uploadResponse) == uploadResponse.state = "resolved"

\* await grantAPI.uploadDocuments(newFiles) did not throw, and
\* if (uploadResponse.success)
UploadSucceeded(uploadResponse) ==
    uploadResponse.state = "resolved" /\ uploadResponse.success

\* The tag of the response taken as it is.
LoggedMethod_Mut(uploadResponse) == uploadResponse.method

\* const method = uploadResponse.upload_method || 'standard'
LoggedMethod(uploadResponse) ==
    IF uploadResponse.method = "" THEN "standard" ELSE uploadResponse.method

\* handleFileUpload(files) with a file list, up to its await: the input is
\* disabled while isUploading, and is not rendered once a proposal is shown.
HandleFileUpload(batch) ==
    /\ ~isUploading
    /\ ~generatedProposal
    /\ nUploads < MaxUploads
    /\ nUploads' = nUploads + 1
    /\ handling' = TRUE
    /\ isUploading' = TRUE
    /\ error' = ""
    /\ uploadProgress' = InitialProgress(batch)
    /\ StartUploadDocuments(batch)
    /\ UNCHANGED <<uploadedFiles, uploadStatus, isGenerating,
                   generatedProposal, proposalData, loggedMethod, lastAnswer>>
    /\ UNCHANGED <<mounted, calls, proxyVars>>

\* No finally: the flag and the progress map are cleared in the success
\* branch only.
HandleFileUploadSettled_Mut ==
    /\ handling
    /\ pc = "done"
    /\ IF UploadSucceeded(ret)
       THEN /\ uploadedFiles' = uploadedFiles \o UploadedFileData(files, ret)
            /\ uploadStatus' = "success"
            /\ loggedMethod' = LoggedMethod(ret)
            /\ isUploading' = FALSE
            /\ uploadProgress' = EmptyMap
            /\ UNCHANGED error
       ELSE /\ error' = UPLOAD_FAILED_MESSAGE
            /\ uploadStatus' = "failed"
            /\ uploadedFiles' = uploadedFiles \o FailedFiles(files)
            /\ UNCHANGED <<loggedMethod, isUploading, uploadProgress>>
    /\ handling' = FALSE
    /\ lastAnswer' = answer
    /\ CallGone
    /\ UNCHANGED <<isGenerating, generatedProposal, proposalData, nUploads>>
    /\ UNCHANGED <<mounted, calls, proxyVars>>

\* handleFileUpload after its await: the success branch, or the catch (which
\* the else branch throws into), then the finally.
HandleFileUploadSettled ==
    /\ handling
    /\ pc = "done"
    /\ IF UploadSucceeded(ret)
       THEN /\ uploadedFiles' = uploadedFiles \o UploadedFileData(files, ret)
            /\ uploadStatus' = "success"
            /\ loggedMethod' = LoggedMethod(ret)
            /\ UNCHANGED error
       ELSE /\ error' = UPLOAD_FAILED_MESSAGE
            /\ uploadStatus' = "failed"
            /\ uploadedFiles' = uploadedFiles \o FailedFiles(files)
            /\ UNCHANGED loggedMethod
    /\ isUploading' = FALSE
    /\ uploadProgress' = EmptyMap
    /\ handling' = FALSE
    /\ lastAnswer' = answer
    /\ CallGone
    /\ UNCHANGED <<isGenerating, generatedProposal, proposalData, nUploads>>
    /\ UNCHANGED <<mounted, calls, proxyVars>>

\* Every entry of the list is sent.
UploadedFileInfo_Mut(list) == list

\* formData.uploadedFiles?.filter(file => file.status === 'uploaded') || []
UploadedFileInfo(list) ==
    SelectSeq(list, LAMBDA file : file.status = "uploaded")

\* generateProposal up to its await: the button is disabled while
\* isGenerating, and is not rendered once a proposal is shown.
GenerateProposal ==
    /\ ~isGenerating
    /\ ~generatedProposal
    /\ isGenerating' = TRUE
    /\ error' = ""
    /\ proposalData' = [sent |-> TRUE,
                        uploaded_documents |-> UploadedFileInfo(uploadedFiles)]
    /\ UNCHANGED <<libVars, handling, isUploading, uploadProgress,
                   uploadedFiles, uploadStatus, generatedProposal, loggedMethod,
                   nUploads, lastAnswer, mounted, calls, proxyVars>>

\* generateProposal after its await: response.success, its else, or the catch;
\* then the finally.
GenerateProposalSettled(outcome) ==
    /\ isGenerating
    /\ proposalData.sent
    /\ generatedProposal' = (outcome = "success")
    /\ error' = IF outcome = "success" THEN error
                ELSE IF outcome = "failure" THEN GENERATE_FAILED_MESSAGE
                ELSE CONNECTION_MESSAGE
    /\ isGenerating' = FALSE
    /\ proposalData' = NoProposal
    /\ UNCHANGED <<libVars, handling, isUploading, uploadProgress,
                   uploadedFiles, uploadStatus, loggedMethod, nUploads,
                   lastAnswer, mounted, calls, proxyVars>>

\* The form: uploads through handleFileUpload, and proposal generation.
FormNext ==
    \/ pc = "idle" /\ \E b \in Batches(FormSizes) : HandleFileUpload(b)
    \/ UploadDocumentsValidate
    \/ UploadDocumentsChunkedLoop
    \/ \E hasIds \in BOOLEAN : UploadSingleOk(hasIds)
    \/ \E err \in HttpFailures("upload_failed") : UploadSingleFail(err)
    \/ \E succ \in BOOLEAN, m \in UploadMethods, urls \in BOOLEAN :
          UploadDirectOk(succ, m, urls)
    \/ \E err \in HttpFailures("http_error") : UploadDirectFail(err)
    \/ HandleFileUploadSettled
    \/ GenerateProposal
    \/ \E outcome \in {"success", "failure", "rejected"} :
          GenerateProposalSettled(outcome)

FormSpec == Init /\ [][FormNext]_vars

\* ---------------------- handleFileUpload calls of one form, side by side
\*
\* uploadDocuments touches no state of the forms: here a call awaiting it sees
\* it settle as a success or as a failure, the two ways handleFileUpload
\* distinguishes.

\* Sizes of the files picked here: two of them exceed 30 MB together.
PickSizes == {20 * MB}

PROGRESS_STEP == 10
PROGRESS_END == 100

\* setUploadProgress(prev => ({...prev, [file.name]: progress}))
SetProgress(prev, name, progress) ==
    [n \in DOMAIN prev \cup {name} |-> IF n = name THEN progress ELSE prev[n]]

\* newFiles.forEach(file => { progressMap[file.name] = 0 })
ZeroProgress(fs) == [n \in FileNames(fs) |-> 0]

\* The file input of the form accepts a change event: QuickProposalForm
\* renders it with disabled={isUploading}, FullProposalBuilder with no
\* disabled attribute.
InputEnabled(form) ==
    IF form = "quick" THEN ~isUploading /\ ~generatedProposal ELSE TRUE

\* The page shows one of the forms.
Mount(form) ==
    /\ mounted = "none"
    /\ mounted' = form
    /\ UNCHANGED <<libVars, proxyVars, handling, isUploading, uploadProgress,
                   uploadedFiles, error, uploadStatus, isGenerating,
                   generatedProposal, proposalData, loggedMethod, nUploads,
                   lastAnswer, calls>>

\* handleFileUpload(files) up to its first await. QuickProposalForm goes
\* straight to uploadDocuments; FullProposalBuilder enters its progress loop
\* first (straight to uploadDocuments when newFiles is empty).
PickFiles(batch) ==
    /\ mounted \in {"quick", "full"}
    /\ InputEnabled(mounted)
    /\ nUploads < MaxUploads
    /\ nUploads' = nUploads + 1
    /\ isUploading' = TRUE
    /\ error' = ""
    /\ IF mounted = "quick"
       THEN /\ uploadProgress' = InitialProgress(batch)
            /\ calls' = [calls EXCEPT ![nUploads + 1] = Call("upload", batch, 0, 0)]
       ELSE IF batch = <<>>
       THEN /\ uploadProgress' = ZeroProgress(batch)
            /\ calls' = [calls EXCEPT ![nUploads + 1] = Call("upload", batch, 0, 0)]
       ELSE /\ uploadProgress' = SetProgress(ZeroProgress(batch), batch[1].name, 0)
            /\ calls' = [calls EXCEPT ![nUploads + 1] = Call("timer", batch, 1, 0)]
    /\ UNCHANGED <<libVars, proxyVars, handling, uploadedFiles, uploadStatus,
                   isGenerating, generatedProposal, proposalData, loggedMethod,
                   lastAnswer, mounted>>

\* FullProposalBuilder: await new Promise(resolve => setTimeout(resolve, 100))
\* is over; the loops go on to the next progress value, the next file, or to
\* uploadDocuments.
ProgressTimer(c) ==
    /\ calls[c].pc = "timer"
    /\ LET call == calls[c]
           fs == call.files
       IN IF call.progress + PROGRESS_STEP <= PROGRESS_END
          THEN /\ uploadProgress' = SetProgress(uploadProgress, fs[call.i].name,
                                                call.progress + PROGRESS_STEP)
               /\ calls' = [calls EXCEPT ![c].progress = call.progress + PROGRESS_STEP]
          ELSE IF call.i < Len(fs)
          THEN /\ uploadProgress' = SetProgress(uploadProgress, fs[call.i + 1].name, 0)
               /\ calls' = [calls EXCEPT ![c] = Call("timer", fs, call.i + 1, 0)]
          ELSE /\ calls' = [calls EXCEPT ![c] = Call("upload", fs, 0, 0)]
               /\ UNCHANGED uploadProgress
    /\ UNCHANGED <<libVars, proxyVars, handling, isUploading, uploadedFiles,
                   error, uploadStatus, isGenerating, generatedProposal,
                   proposalData, loggedMethod, nUploads, lastAnswer, mounted>>

\* handleFileUpload after await grantAPI.uploadDocuments(newFiles): the success
\* branch or the catch, then the finally.
UploadSettled(c, uploadResponse) ==
    /\ calls[c].pc = "upload"
    /\ IF UploadSucceeded(uploadResponse)
       THEN /\ uploadedFiles' =
                  uploadedFiles \o UploadedFileData(calls[c].files, uploadResponse)
            /\ uploadStatus' = IF mounted = "quick" THEN "success" ELSE uploadStatus
            /\ UNCHANGED error
       ELSE /\ error' = UPLOAD_FAILED_MESSAGE
            /\ uploadStatus' = IF mounted = "quick" THEN "failed" ELSE uploadStatus
            /\ uploadedFiles' = uploadedFiles \o FailedFiles(calls[c].files)
    /\ isUploading' = FALSE
    /\ uploadProgress' = EmptyMap
    /\ calls' = [calls EXCEPT ![c].pc = "over"]
    /\ UNCHANGED <<libVars, proxyVars, handling, isGenerating,
                   generatedProposal, proposalData, loggedMethod, nUploads,
                   lastAnswer, mounted>>

\* The ways the awaited uploadDocuments settles.
Settlements == {Resolved(TRUE, "", <<>>), Resolved(FALSE, "", <<>>),
                Rejected(Err("network", "", 0))}

UploadsNext ==
    \/ \E form \in {"quick", "full"} : Mount(form)
    \/ \E b \in Batches(PickSizes) : PickFiles(b)
    \/ \E c \in 1..MaxUploads : ProgressTimer(c)
    \/ \E c \in 1..MaxUploads, r \in Settlements : UploadSettled(c, r)

UploadsSpec == Init /\ [][UploadsNext]_vars

\* ------------------------------------------- upload-single route: POST

\* Statuses and bodies of the backend.
BackendErrors == {400, 413, 503}
BackendJson == {"artifacts", "no artifacts"}

\* error.message of what the handler's try block can throw.
FORMDATA_MESSAGE == "Failed to parse body as FormData."
FETCH_MESSAGE == "fetch failed"
ABORT_MESSAGE == "This operation was aborted"
JSON_MESSAGE == "Unexpected token in JSON"

\* The request forwarded: fetch(`${API_BASE}/upload_documents`, {method: 'POST',
\* body: formData, signal})
BackendReq(fs) == [ep |-> "/upload_documents", files |-> fs]

\* The answer always sent with status 500.
BackendErrorResponse_Mut(status, errorText) ==
    NextResponseJson(500,
        [success |-> FALSE, error |-> "Backend error", n |-> status,
         details |-> errorText, json |-> ""])

\* NextResponse.json({success: false, error: `Backend error: ${status}`,
\*                    details: errorText}, {status: backendResponse.status})
BackendErrorResponse(status, errorText) ==
    NextResponseJson(status,
        [success |-> FALSE, error |-> "Backend error", n |-> status,
         details |-> errorText, json |-> ""])

\* The catch rethrowing: the handler returns no response.
ProxyErrorResponse_Mut(message) == NoResponse

\* The catch: NextResponse.json({success: false, error: 'Proxy server error',
\*                               details: error.message}, {status: 500})
ProxyErrorResponse(message) ==
    NextResponseJson(500,
        [success |-> FALSE, error |-> "Proxy server error", n |-> 0,
         details |-> message, json |-> ""])

\* NextResponse.json(result): the backend's JSON, status 200.
ResultResponse(json) ==
    NextResponseJson(200,
        [success |-> TRUE, error |-> "", n |-> 0, details |-> "", json |-> json])

\* POST(request) up to its second await: request.formData(), which may throw
\* into the catch; then the timer and the fetch to the backend.
ProxyPost(fs, readable) ==
    /\ proxyPc = "idle"
    /\ backendAnswer' = NoAnswer
    /\ IF readable
       THEN /\ formData' = fs
            /\ timeoutId' = TRUE
            /\ backendInflight' = backendInflight \cup {BackendReq(fs)}
            /\ nForwarded' = 1
            /\ proxyResponse' = NoResponse
            /\ proxyPc' = "backend_wait"
       ELSE /\ proxyResponse' = ProxyErrorResponse(FORMDATA_MESSAGE)
            /\ proxyPc' = "responded"
            /\ formData' = <<>>
            /\ nForwarded' = 0
            /\ UNCHANGED <<timeoutId, backendInflight>>
    /\ UNCHANGED <<libVars, formVars>>

\* The backend answered 2xx: clearTimeout, then backendResponse.json(), which
\* throws into the catch when the body is no JSON.
BackendOk(json, parses) ==
    /\ proxyPc = "backend_wait"
    /\ BackendReq(formData) \in backendInflight
    /\ backendInflight' = backendInflight \ {BackendReq(formData)}
    /\ timeoutId' = FALSE
    /\ backendAnswer' = BackendAnswer(IF parses THEN "ok" ELSE "not_json", 200, json)
    /\ proxyResponse' = IF parses THEN ResultResponse(json)
                        ELSE ProxyErrorResponse(JSON_MESSAGE)
    /\ proxyPc' = "responded"
    /\ UNCHANGED <<libVars, formVars, formData, nForwarded>>

\* The backend answered non-2xx: clearTimeout, then the error response.
BackendFail(status, errorText) ==
    /\ proxyPc = "backend_wait"
    /\ BackendReq(formData) \in backendInflight
    /\ backendInflight' = backendInflight \ {BackendReq(formData)}
    /\ timeoutId' = FALSE
    /\ backendAnswer' = BackendAnswer("http", status, errorText)
    /\ proxyResponse' = BackendErrorResponse(status, errorText)
    /\ proxyPc' = "responded"
    /\ UNCHANGED <<libVars, formVars, formData, nForwarded>>

\* The fetch was rejected: the catch answers; clearTimeout is skipped, the
\* timer stays armed.
BackendUnreachable ==
    /\ proxyPc = "backend_wait"
    /\ BackendReq(formData) \in backendInflight
    /\ backendInflight' = backendInflight \ {BackendReq(formData)}
    /\ backendAnswer' = BackendAnswer("rejected", 0, FETCH_MESSAGE)
    /\ proxyResponse' = ProxyErrorResponse(FETCH_MESSAGE)
    /\ proxyPc' = "responded"
    /\ UNCHANGED <<libVars, formVars, formData, timeoutId, nForwarded>>

\* setTimeout(() => controller.abort(), 600000) fires. A fetch still pending is
\* rejected with an AbortError, which the catch answers; after the handler has
\* answered the abort has no effect.
TimeoutFires ==
    /\ timeoutId
    /\ timeoutId' = FALSE
    /\ IF proxyPc = "backend_wait"
       THEN /\ backendInflight' = backendInflight \ {BackendReq(formData)}
            /\ backendAnswer' = BackendAnswer("aborted", 0, ABORT_MESSAGE)
            /\ proxyResponse' = ProxyErrorResponse(ABORT_MESSAGE)
            /\ proxyPc' = "responded"
       ELSE UNCHANGED <<backendInflight, backendAnswer, proxyResponse, proxyPc>>
    /\ UNCHANGED <<libVars, formVars, formData, nForwarded>>

\* The response has gone to the browser; the route serves the next request.
ProxyDone ==
    /\ proxyPc = "responded"
    /\ ~timeoutId
    /\ proxyPc' = "idle"
    /\ formData' = <<>>
    /\ proxyResponse' = NoResponse
    /\ backendAnswer' = NoAnswer
    /\ nForwarded' = 0
    /\ UNCHANGED <<libVars, formVars, backendInflight, timeoutId>>

ProxyNext ==
    \/ \E fs \in Batches(FormSizes), readable \in BOOLEAN : ProxyPost(fs, readable)
    \/ \E json \in BackendJson, parses \in BOOLEAN : BackendOk(json, parses)
    \/ \E st \in BackendErrors, t \in ErrorTexts : BackendFail(st, t)
    \/ BackendUnreachable
    \/ TimeoutFires
    \/ ProxyDone

ProxySpec == Init /\ [][ProxyNext]_vars

\* ------------------------------------------------------------- properties

ChunkEndpoints ==
    {"/api/upload/init", "/api/upload/chunk", "/api/upload/finalize"}

\* The sizes of the files carried by a request.
ReqSizes(r) == {r.files[i].size : i \in 1..Len(r.files)}

\* A ChunkedUploader.uploadFile call is running or has just returned.
InSession ==
    /\ entry \in {"uploadFile", "uploadFiles"}
    /\ pc \in {"init_wait", "for", "while", "chunk_wait", "backoff",
               "finalize", "finalize_wait", "returned", "done"}
    /\ entry = "uploadFiles" => pc # "done"

AcceptedIdx == {a[1] : a \in accepted}

\* C1 (as stated): a file larger than 25 MB is never carried by a direct POST
\* to /api/upload, whichever entry point runs and whatever the batch.
C1_Original ==
    \A r \in inflight :
        r.ep = "/api/upload" => \A sz \in ReqSizes(r) : sz <= 25 * MB

\* C1 (amended): uploadFiles sends every file larger than 25 MB through the
\* chunk session endpoints and never in a direct POST; uploadDocuments decides
\* on the batch total alone: a direct POST carries at most 30 MB in all, and a
\* batch holding a file larger than 30 MB is sent file by file to
\* /api/upload-single.
C1_Amended ==
    /\ entry = "uploadFiles" =>
         \A r \in inflight :
            /\ r.ep = "/api/upload" => \A sz \in ReqSizes(r) : sz <= 25 * MB
            /\ files[fileIdx].size > 25 * MB <=> r.ep \in ChunkEndpoints
    /\ entry = "uploadDocuments" =>
         \A r \in inflight :
            /\ r.ep = "/api/upload" => SumSizes(r.files) <= 30 * MB
            /\ (\E i \in 1..Len(files) : files[i].size > 30 * MB)
                 => r.ep = "/api/upload-single"

\* uploadFiles has a chunk of the second file, larger than 25 MB, in flight.
C1_Witness ==
    /\ entry = "uploadFiles"
    /\ Len(files) = 2
    /\ fileIdx = 2
    /\ files[2].size > 25 * MB
    /\ \E r \in inflight : r.ep = "/api/upload/chunk" /\ r.chunkIndex = 5

\* C2 (as stated): a batch of files of at most 25 MB each whose sizes sum to
\* more than 30 MB (and at most 500 MB) causes no direct POST to /api/upload,
\* in uploadDocuments and in uploadFiles.
C2_Original ==
    ( /\ entry \in {"uploadDocuments", "uploadFiles"}
      /\ \A i \in 1..Len(files) : files[i].size <= 25 * MB
      /\ SumSizes(files) > 30 * MB
      /\ SumSizes(files) <= 500 * MB )
    => \A r \in inflight : r.ep # "/api/upload"

\* C2 (amended): for such a batch uploadDocuments issues no direct POST: every
\* request it issues carries exactly the file at the cursor to
\* /api/upload-single.  uploadFiles decides per file: each of its direct POSTs
\* carries exactly one file, of at most 25 MB.
C2_Amended ==
    /\ ( /\ entry = "uploadDocuments"
         /\ \A i \in 1..Len(files) : files[i].size <= 25 * MB
         /\ SumSizes(files) > 30 * MB
         /\ SumSizes(files) <= 500 * MB )
       => \A r \in inflight :
             /\ r.ep = "/api/upload-single"
             /\ r.files = <<files[fileIdx]>>
    /\ entry = "uploadFiles"
       => \A r \in inflight :
             r.ep = "/api/upload"
               => r.files = <<files[fileIdx]>> /\ files[fileIdx].size <= 25 * MB

\* uploadDocuments sends the second of two 20 MB files to /api/upload-single.
C2_Witness ==
    /\ entry = "uploadDocuments"
    /\ Len(files) = 2
    /\ files[1].size = 20 * MB /\ files[2].size = 20 * MB
    /\ fileIdx = 2
    /\ \E r \in inflight : r.ep = "/api/upload-single"

\* n is the number of hundredths of a MB nearest to `bytes` (half rounds up).
NearestHundredthMB(n, bytes) ==
    LET d == n - 100 * (bytes \div MB)
        r == bytes % MB
    IN /\ d \in 0..100
       /\ 2 * d * MB <= 200 * r + MB
       /\ 200 * r + MB < 2 * (d + 1) * MB

Oversize ==
    \/ \E i \in 1..Len(files) : files[i].size > 500 * MB
    \/ SumSizes(files) > 500 * MB

\* C3 (as stated): a batch with a file over 500 MB or a total over 500 MB is
\* rejected with an error naming a file of the batch and that file's size in
\* MB, and no request is issued.
C3_Original ==
    (entry \in {"uploadDocuments", "uploadFiles"} /\ Oversize)
    => /\ inflight = {}
       /\ pc = "done" =>
            /\ ret.state = "rejected"
            /\ \E i \in 1..Len(files) :
                  /\ ret.error.name = files[i].name
                  /\ NearestHundredthMB(ret.error.n, files[i].size)

\* C3 (amended): uploadDocuments issues no request for an oversize batch and
\* rejects: with an error naming the first file over 500 MB and its size in
\* MB if there is one, otherwise with an error stating the total size in MB
\* and naming no file.
C3_Amended ==
    (entry = "uploadDocuments" /\ Oversize)
    => /\ inflight = {}
       /\ pc = "done" =>
            /\ ret.state = "rejected"
            /\ IF \E i \in 1..Len(files) : files[i].size > 500 * MB
               THEN \E i \in 1..Len(files) :
                       /\ files[i].size > 500 * MB
                       /\ \A j \in 1..(i - 1) : files[j].size <= 500 * MB
                       /\ ret.error.kind = "file_too_large"
                       /\ ret.error.name = files[i].name
                       /\ NearestHundredthMB(ret.error.n, files[i].size)
               ELSE /\ ret.error.kind = "total_too_large"
                    /\ ret.error.name = ""
                    /\ NearestHundredthMB(ret.error.n, SumSizes(files))

\* uploadDocuments has rejected a batch whose second file is over 500 MB.
C3_Witness ==
    /\ entry = "uploadDocuments"
    /\ pc = "done"
    /\ Len(files) = 2
    /\ files[1].size <= 500 * MB /\ files[2].size > 500 * MB
    /\ ret.state = "rejected"
    /\ ret.error.name = files[2].name

\* The byte range of chunk i of a file of `total` bytes, as the spec states it.
RangeOf(i, total) ==
    <<i, i * (5 * MB), IF (i + 1) * (5 * MB) < total THEN (i + 1) * (5 * MB)
                       ELSE total>>

RECURSIVE SumLengths(_)
SumLengths(ranges) ==
    IF ranges = {} THEN 0
    ELSE LET a == CHOOSE x \in ranges : TRUE
         IN (a[3] - a[2]) + SumLengths(ranges \ {a})

\* C4: in a chunk session totalChunks is ceil(totalBytes / 5 MB); every chunk
\* POSTed or accepted covers [i * 5 MB, min(totalBytes, (i + 1) * 5 MB)); and
\* when the upload succeeds the accepted ranges are exactly those of the
\* indices 0..totalChunks-1, which tile [0, totalBytes) and whose lengths sum
\* to totalBytes.
C4_ChunkPartition ==
    InSession =>
      /\ totalChunks >= 0
      /\ totalChunks * (5 * MB) >= totalBytes
      /\ totalChunks > 0 => (totalChunks - 1) * (5 * MB) < totalBytes
      /\ \A r \in inflight :
            r.ep = "/api/upload/chunk"
              => <<r.chunkIndex, r.start, r.end>> = RangeOf(r.chunkIndex, totalBytes)
      /\ \A a \in accepted : a = RangeOf(a[1], totalBytes) /\ a[2] < a[3]
      /\ (result.set /\ result.success) =>
            /\ accepted = {RangeOf(i, totalBytes) : i \in 0..(totalChunks - 1)}
            /\ \A a \in accepted, b \in accepted :
                  a[1] + 1 = b[1] => a[3] = b[2]
            /\ \A a \in accepted : a[1] = 0 => a[2] = 0
            /\ \A a \in accepted : a[1] = totalChunks - 1 => a[3] = totalBytes
            /\ SumLengths(accepted) = totalBytes

\* A file of 15 MB + 7 bytes has been uploaded in 4 chunks, the last of 7 bytes.
C4_Witness ==
    /\ result.set /\ result.success
    /\ totalBytes = 3 * (5 * MB) + 7
    /\ Cardinality(accepted) = 4
    /\ <<3, 15 * MB, 15 * MB + 7>> \in accepted

\* C5: chunk POSTs go out in index order from 0, one at a time: at most one
\* request is in flight, the indices POSTed so far are 0..i with i the latest,
\* and chunk i is POSTed only when exactly the chunks 0..i-1 are accepted.
C5_Sequential ==
    InSession =>
      /\ Cardinality(inflight) <= 1
      /\ \E k \in -1..totalChunks : posted = 0..k
      /\ AcceptedIdx \subseteq posted
      /\ \A r \in inflight :
            r.ep = "/api/upload/chunk"
              => /\ posted = 0..r.chunkIndex
                 /\ AcceptedIdx = 0..(r.chunkIndex - 1)
                 /\ r.chunkIndex < totalChunks

\* Chunk 2 is POSTed for the second time, chunks 0 and 1 being accepted.
C5_Witness ==
    /\ InSession
    /\ \E r \in inflight : r.ep = "/api/upload/chunk" /\ r.chunkIndex = 2
    /\ postsAt = 2
    /\ AcceptedIdx = {0, 1}

\* C6: no chunk index is POSTed more than 3 times, and once a chunk has
\* failed 3 times the upload has failed: the result is a failure and no
\* request is in flight or issued any more in that session.
C6_RetryBound ==
    InSession =>
      /\ postsAt <= 3
      /\ failsAt <= 3
      /\ failsAt >= 3 =>
            /\ inflight = {}
            /\ pc \in {"returned", "done"}
            /\ result.set /\ ~result.success
            /\ posted = 0..chunkIndex
            /\ nFinalize = 0

\* The second chunk of a file has failed 3 times.
C6_Witness ==
    /\ InSession
    /\ failsAt = 3
    /\ postsAt = 3
    /\ chunkIndex = 1
    /\ AcceptedIdx = {0}
    /\ result.set /\ ~result.success

\* C7: the percentages delivered to onProgress are integers in 0..100, never
\* decrease, and a successful upload that delivered any ends with 100; with a
\* callback and a non-empty file a successful upload delivers one per chunk.
C7_Progress ==
    InSession =>
      /\ \A i \in 1..Len(progressLog) : progressLog[i] \in 0..100
      /\ \A i \in 1..Len(progressLog), j \in 1..Len(progressLog) :
            i <= j => progressLog[i] <= progressLog[j]
      /\ (result.set /\ result.success) =>
            /\ progressLog # <<>> => progressLog[Len(progressLog)] = 100
            /\ UploaderHasCallback => Len(progressLog) = totalChunks

\* A successful upload of 15 MB + 7 bytes reported 33, 67, 100, 100.
C7_Witness ==
    /\ result.set /\ result.success
    /\ progressLog = <<33, 67, 100, 100>>

\* C8: finalize is called at most once, only when every chunk index
\* 0..totalChunks-1 is accepted; a successful upload called it exactly once;
\* it is never called after a failed init or a chunk that ran out of retries.
C8_FinalizeOnce ==
    InSession =>
      /\ nFinalize <= 1
      /\ nFinalize = 1 =>
            /\ AcceptedIdx = 0..(totalChunks - 1)
            /\ ~initFailed
            /\ failsAt < 3
      /\ (\E r \in inflight : r.ep = "/api/upload/finalize") => nFinalize = 1
      /\ (result.set /\ result.success) => nFinalize = 1
      /\ (result.set /\ result.error.kind = "chunk_failed") => nFinalize = 0
      /\ initFailed => nFinalize = 0

\* A 4-chunk upload has succeeded with one finalize call.
C8_Witness ==
    /\ result.set /\ result.success
    /\ totalChunks = 4
    /\ nFinalize = 1
    /\ inflight = {}

\* C9: when the init call fails the upload aborts with a failure result: no
\* chunk is POSTed, finalize is not called, nothing is in flight.
C9_InitAbort ==
    (InSession /\ initFailed) =>
      /\ posted = {}
      /\ accepted = {}
      /\ nFinalize = 0
      /\ inflight = {}
      /\ result.set /\ ~result.success
      /\ pc \in {"returned", "done"}

\* The init call of a 4-chunk file was answered with a non-2xx status.
C9_Witness ==
    /\ InSession
    /\ initFailed
    /\ totalChunks = 4
    /\ result.set
    /\ result.error.kind = "init_failed"

\* C10: every chunk POST and finalize call in flight carries the uploadId the
\* proxy returned at this session's init, which is a token it issued.
C10_UploadId ==
    \A r \in inflight :
        r.ep \in {"/api/upload/chunk", "/api/upload/finalize"}
          => r.uploadId = issuedId /\ issuedId \in UploadIds

\* uploadFiles: the first file was uploaded under "u1"; the second session
\* was issued "u2" and has a chunk in flight.
C10_Witness ==
    /\ entry = "uploadFiles"
    /\ Len(results) = 1
    /\ results[1].uploadId = "u1"
    /\ issuedId = "u2"
    /\ \E r \in inflight : r.ep = "/api/upload/chunk" /\ r.uploadId = "u2"

\* The messages the outer catch of uploadFile can carry.
SessionErrorKinds ==
    {"network", "init_failed", "chunk_failed", "finalize_failed", "callback"}

\* C11: when uploadFile fails (init failure, a chunk out of retries, finalize
\* failure) its result has success = false, the name of the file and an error
\* message; from then on nothing of the session is in flight, and no request
\* of any session ever goes to an endpoint other than init, chunk and
\* finalize (there is no cleanup or delete call).
C11_FailureResult ==
    /\ (InSession /\ result.set /\ ~result.success) =>
          /\ result.fileName = files[fileIdx].name
          /\ result.fileName # ""
          /\ result.error # NoError
          /\ result.error.kind \in SessionErrorKinds
          /\ result.uploadId = ""
          /\ inflight = {}
          /\ pc \in {"returned", "done"}
    /\ (InSession /\ (initFailed \/ failsAt >= MAX_RETRIES)) =>
          (result.set /\ ~result.success /\ inflight = {})
    /\ InSession => \A r \in inflight : r.ep \in ChunkEndpoints

\* Finalize failed after the proxy had accepted all 4 chunks: the result
\* names the file, carries the error, and nothing is in flight.
C11_Witness ==
    /\ InSession
    /\ result.set /\ ~result.success
    /\ result.error.kind = "finalize_failed"
    /\ result.fileName = files[fileIdx].name
    /\ AcceptedIdx = 0..3
    /\ inflight = {}

\* The direct POST of the running uploadDocuments call was answered with a
\* non-2xx status.
DirectAnswerFailed ==
    /\ entry = "uploadDocuments"
    /\ pc = "done"
    /\ answer.kind = "http_error"

\* handleFileUpload appended one entry of the given status per file of the
\* batch, in order, and left the earlier entries alone.
AppendedAll(status) ==
    /\ Len(uploadedFiles') = Len(uploadedFiles) + Len(files)
    /\ SubSeq(uploadedFiles', 1, Len(uploadedFiles)) = uploadedFiles
    /\ \A i \in 1..Len(files) :
         /\ uploadedFiles'[Len(uploadedFiles) + i].name = files[i].name
         /\ uploadedFiles'[Len(uploadedFiles) + i].status = status

\* C12: on the direct path, a non-2xx answer of the proxy to the batch POST
\* makes uploadDocuments reject, and handleFileUpload then records every file
\* of the batch as failed and none as uploaded.
C12_DirectAtomic ==
    /\ [](DirectAnswerFailed =>
            /\ ret.state = "rejected"
            /\ answer.n \in HttpErrors
            /\ inflight = {})
    /\ [][(handling /\ DirectAnswerFailed /\ ~handling') =>
            /\ AppendedAll("failed")
            /\ uploadStatus' = "failed"
            /\ error' = UPLOAD_FAILED_MESSAGE]_vars

\* The first upload of the form, two files in one direct POST, was answered
\* 413: both files are recorded as failed.
C12_Witness ==
    /\ nUploads = 1
    /\ ~handling
    /\ lastAnswer.kind = "http_error" /\ lastAnswer.n = 413
    /\ Len(uploadedFiles) = 2
    /\ \A i \in 1..2 : uploadedFiles[i].status = "failed"

\* C13: on the direct path one uploadDocuments call issues exactly one POST
\* to /api/upload, carrying every file of the batch, and never sends it
\* again, whatever the answer; on the file-by-file path each file is POSTed
\* at most once; a batch that fails validation issues no POST.
C13_OnePost ==
    entry = "uploadDocuments" =>
      /\ \A r \in inflight :
            /\ r.ep \in {"/api/upload", "/api/upload-single"}
            /\ r.ep = "/api/upload" => r.files = files
      /\ Cardinality(inflight) <= 1
      /\ pc = "ud_validate" => nPosts = 0
      /\ pc = "ud_wait" => (nPosts = 1 /\ inflight = {DirectReq(files)})
      /\ (pc = "done" /\ SumSizes(files) <= 30 * MB) =>
            (nPosts <= 1 /\ inflight = {})
      /\ (pc = "done" /\ answer.kind \in {"http_error", "network"}
             /\ SumSizes(files) <= 30 * MB) =>
            (nPosts = 1 /\ ret.state = "rejected")
      /\ pc \in {"udc_for", "udc_wait", "done"} =>
            (nPosts <= fileIdx /\ nPosts <= Len(files))

\* A two-file batch went out in one POST, which the proxy answered 500: the
\* call has rejected after that single POST.
C13_Witness ==
    /\ entry = "uploadDocuments"
    /\ pc = "done"
    /\ Len(files) = 2
    /\ answer.kind = "http_error" /\ answer.n = 500
    /\ nPosts = 1
    /\ ret.state = "rejected"

\* The names of the files uploadFiles has finished with: those of its results
\* and of its errors.
Finished == {results[i].fileName : i \in 1..Len(results)}
            \cup {errors[i].name : i \in 1..Len(errors)}

\* C14: the files of one call are processed one at a time. At most one
\* request is in flight and it belongs to the file at the cursor: in
\* uploadFiles the running chunk session is that file's and every earlier file
\* is already in results or errors; in uploadDocumentsChunked every earlier
\* file has been answered.
C14_OneFileAtATime ==
    /\ entry \in {"uploadFiles", "uploadDocuments"} =>
          Cardinality(inflight) <= 1
    /\ entry = "uploadFiles" =>
          /\ \A k \in 1..(fileIdx - 1) : files[k].name \in Finished
          /\ \A r \in inflight :
                /\ fileIdx <= Len(files)
                /\ files[fileIdx].name \notin Finished
                /\ r.ep \in ChunkEndpoints =>
                      /\ fileName = files[fileIdx].name
                      /\ totalBytes = files[fileIdx].size
                      /\ ~result.set
                /\ r.ep = "/api/upload" => r.files = <<files[fileIdx]>>
    /\ (entry = "uploadDocuments" /\ pc \in {"udc_for", "udc_wait"}) =>
          /\ Len(results) = fileIdx - 1
          /\ \A r \in inflight :
                /\ fileIdx <= Len(files)
                /\ r = SingleReq(files[fileIdx])

\* uploadFiles with two files over 25 MB: the first one has failed and is in
\* errors, the session of the second has its chunk 1 in flight.
C14_Witness ==
    /\ entry = "uploadFiles"
    /\ Len(files) = 2
    /\ \A i \in 1..2 : needsChunkedUpload(files[i])
    /\ Len(errors) = 1
    /\ fileIdx = 2
    /\ \E r \in inflight : r.ep = "/api/upload/chunk" /\ r.chunkIndex = 1

\* An unrecoverable failure has happened in the call that has just settled:
\* a validation error, a non-2xx answer or a rejected fetch in uploadDocuments;
\* a failed init or a chunk that failed 3 times in uploadFile; a failed file
\* in uploadFiles.
FailureOccurred ==
    /\ pc = "done"
    /\ \/ entry = "uploadDocuments"
            /\ (ValidationError(files) # NoError \/ answer # NoError)
       \/ entry = "uploadFile" /\ (initFailed \/ failsAt >= MAX_RETRIES)
       \/ entry = "uploadFiles" /\ errors # <<>>

\* C15 (as stated): every unrecoverable failure settles the operation as
\* rejected, with an error message.
C15_Original ==
    FailureOccurred => (ret.state = "rejected" /\ ret.error # NoError)

\* C15 (amended): no unrecoverable failure is lost or becomes a success, but
\* only uploadDocuments rejects. uploadDocuments rejects with an Error on a
\* validation error, a non-2xx answer or a rejected fetch, and resolves only
\* when none happened. uploadFile never rejects: it resolves with
\* success = false and the error message after a failed init, a chunk out of
\* retries or a failed finalize, and with success = true only when init was
\* answered, every chunk accepted and finalize answered. uploadFiles never
\* rejects: a failed chunked file adds one entry naming it to errors, and it
\* resolves with success = false whenever errors is not empty.
C15_Amended ==
    /\ [](pc = "done" =>
            /\ ret.state \in {"resolved", "rejected"}
            /\ entry = "uploadDocuments" =>
                  /\ FailureOccurred <=> ret.state = "rejected"
                  /\ ret.state = "rejected" =>
                        (ret.error # NoError /\ ~ret.success)
            /\ entry = "uploadFile" =>
                  /\ ret.state = "resolved"
                  /\ FailureOccurred => ~ret.success
                  /\ ~ret.success =>
                        (ret.error # NoError /\ result.fileName = fileName)
                  /\ ret.success =>
                        /\ ~initFailed
                        /\ AcceptedIdx = 0..(totalChunks - 1)
                        /\ result.finalUrl \in Urls
            /\ entry = "uploadFiles" =>
                  /\ ret.state = "resolved"
                  /\ ret.success <=> errors = <<>>
                  /\ \A i \in 1..Len(errors) :
                        /\ errors[i].kind # "none"
                        /\ errors[i].name \in FileNames(files))
    /\ [][(entry = "uploadFiles" /\ pc = "returned" /\ ~result.success
             /\ pc' # pc) =>
            /\ results' = results
            /\ Len(errors') = Len(errors) + 1
            /\ errors'[Len(errors')].name = files[fileIdx].name
            /\ errors'[Len(errors')].kind = result.error.kind]_vars

\* uploadFile has resolved, not rejected, with success = false after chunk 1
\* of 4 failed 3 times.
C15_Witness ==
    /\ entry = "uploadFile"
    /\ pc = "done"
    /\ totalChunks = 4
    /\ failsAt >= MAX_RETRIES
    /\ AcceptedIdx = {0}
    /\ ret.state = "resolved" /\ ~ret.success
    /\ ret.error.kind = "chunk_failed"

\* C16: when the backend answers the forwarded upload with a non-success
\* status s, the route responds with status s and the body
\* {success: false, error, details} whose details is the backend's text.
C16_BackendError ==
    (proxyPc = "responded" /\ backendAnswer.kind = "http") =>
      /\ proxyResponse.status = backendAnswer.status
      /\ proxyResponse.status \in BackendErrors
      /\ proxyResponse.body.success = FALSE
      /\ proxyResponse.body.error = "Backend error"
      /\ proxyResponse.body.n = backendAnswer.status
      /\ proxyResponse.body.details = backendAnswer.text
      /\ proxyResponse.body.details \in ErrorTexts

\* The backend answered 413 "quota exceeded" to a forwarded file: the route
\* has responded 413 with that text as details.
C16_Witness ==
    /\ proxyPc = "responded"
    /\ Len(formData) = 1
    /\ backendAnswer = BackendAnswer("http", 413, "quota exceeded")
    /\ proxyResponse.status = 413
    /\ proxyResponse.body.details = "quota exceeded"

\* The running uploadDocuments call has settled after a non-2xx answer (of
\* the direct POST or of a file's POST), whose body quotes the backend.
BackendRejected ==
    /\ entry = "uploadDocuments"
    /\ pc = "done"
    /\ answer.kind \in {"http_error", "upload_failed"}

\* C17 (as stated): the Error of the client quotes the body of the failed
\* response, and the message the form shows is not the fixed one.
C17_Original ==
    /\ BackendRejected => ret.error.body = answer.body
    /\ (~handling /\ lastAnswer.kind \in {"http_error", "upload_failed"}
          /\ error # "")
         => error \notin {UPLOAD_FAILED_MESSAGE, GENERATE_FAILED_MESSAGE,
                          CONNECTION_MESSAGE}

\* C17 (amended): only the direct path passes the backend's text on, and only
\* to the caller of uploadDocuments. After a non-2xx answer to the direct POST
\* the Error quotes the status and the response body as received; after a
\* non-2xx answer to a file's POST on the file-by-file path the Error names
\* the file and the status and quotes no body. handleFileUpload shows the
\* same fixed message in both cases.
C17_Amended ==
    /\ [](BackendRejected =>
            /\ ret.state = "rejected"
            /\ ret.error.kind = answer.kind
            /\ ret.error.n = answer.n
            /\ answer.body \in ErrorTexts
            /\ answer.kind = "http_error" =>
                  (ret.error.body = answer.body /\ ret.error.name = "")
            /\ answer.kind = "upload_failed" =>
                  (ret.error.body = "" /\ ret.error.name = files[fileIdx].name))
    /\ [][(handling /\ BackendRejected /\ ~handling') =>
            error' = UPLOAD_FAILED_MESSAGE]_vars

\* A file's POST on the file-by-file path was answered 413 "unsupported
\* format": the upload has settled and the form shows the fixed message.
C17_Witness ==
    /\ ~handling
    /\ nUploads = 1
    /\ lastAnswer = ErrBody("upload_failed", "", 413, "unsupported format")
    /\ error = UPLOAD_FAILED_MESSAGE
    /\ uploadStatus = "failed"

\* The entries of a list that are recorded as uploaded, in order.
UploadedOnly(list) == SelectSeq(list, LAMBDA e : e.status = "uploaded")

Running == {c \in 1..MaxUploads : calls[c].pc \in {"timer", "upload"}}

\* C19: in either form at most one handleFileUpload call runs at a time, and
\* while a call runs isUploading is true and the progress map has the entry
\* of each of its files: no other call has overwritten or cleared them.
C19_SingleUpload ==
    /\ Cardinality(Running) <= 1
    /\ \A c \in Running :
          /\ isUploading
          /\ FileNames(calls[c].files) \subseteq DOMAIN uploadProgress

\* The tag C20 expects for a file or batch sent the given way.
ExpectedTag(chunked) == IF chunked THEN "chunked" ELSE "standard"

\* C20 (as stated): a successful result is tagged 'chunked' when the upload
\* took the chunked path and 'standard' when it took the direct POST.
C20_Original ==
    /\ (entry = "uploadDocuments" /\ pc = "done" /\ ret.state = "resolved"
          /\ ret.success) =>
          ret.method = ExpectedTag(SumSizes(files) > 30 * MB)
    /\ entry = "uploadFiles" =>
          \A i \in 1..Len(results) :
             \E k \in 1..Len(files) :
                /\ files[k].name = results[i].fileName
                /\ results[i].method = ExpectedTag(files[k].size > 25 * MB)

\* C20 (amended): uploadDocuments tags the result itself only on the
\* file-by-file path, with upload_method 'chunked'; on the direct path the
\* result is the proxy's JSON, tagged as the proxy tagged it and never
\* 'chunked'. uploadFiles tags each entry of results: 'chunked' for a file
\* larger than 25 MB, sent through the ChunkedUploader, and 'simple' for a file
\* sent in a direct POST.
C20_Amended ==
    /\ (entry = "uploadDocuments" /\ pc = "done" /\ ret.state = "resolved") =>
          IF SumSizes(files) > 30 * MB
          THEN ret.method = "chunked" /\ ret.success
          ELSE ret.method \in UploadMethods
    /\ entry = "uploadFiles" =>
          \A i \in 1..Len(results) :
             \E k \in 1..Len(files) :
                /\ files[k].name = results[i].fileName
                /\ results[i].method =
                      IF files[k].size > 25 * MB THEN "chunked" ELSE "simple"

\* uploadDocuments with one 260 MB file has resolved, tagged 'chunked'.
C20_Witness ==
    /\ entry = "uploadDocuments"
    /\ pc = "done"
    /\ Len(files) = 1
    /\ files[1].size = 260 * MB
    /\ ret.state = "resolved" /\ ret.success
    /\ ret.method = "chunked"

\* The upload handleFileUpload awaits has resolved with success, and the
\* backend returned references: the file_urls map of the direct answer, or the
\* artifact ids of the per-file answers.
ReferencesReturned ==
    /\ handling
    /\ pc = "done"
    /\ UploadSucceeded(ret)
    /\ (ret.file_urls \/ Len(ret.artifact_ids) = Len(files))

\* C21 (as stated): no entry of the list has status 'uploaded' and the
\* placeholder '#' for a reference, and when the backend returned references
\* every entry handleFileUpload appends for the batch carries one, on the
\* direct path and on the file-by-file path.
C21_BackendReference ==
    /\ [](\A i \in 1..Len(uploadedFiles) :
            uploadedFiles[i].status = "uploaded" => uploadedFiles[i].url # "#")
    /\ [][(ReferencesReturned /\ ~handling') =>
            \A i \in 1..Len(files) :
                uploadedFiles'[Len(uploadedFiles) + i].url # "#"]_vars

\* C22: the retry counter is per chunk. The first POST of every chunk index
\* is issued with the counter at 0 and each further POST of that index with
\* one more, whatever happened at earlier indices, so every index has its own
\* 3 attempts; one upload issues at most 3 * totalChunks chunk POSTs.
C22_PerChunkBudget ==
    InSession =>
      /\ nChunkPosts <= MAX_RETRIES * totalChunks
      /\ nChunkPosts <= MAX_RETRIES * Cardinality(posted)
      /\ pc = "chunk_wait" => retries = postsAt - 1
      /\ (pc = "while" /\ chunkIndex \notin posted) => retries = 0

\* The first chunk of a two-chunk file was accepted at its third attempt, and
\* the second chunk is at its third attempt all the same.
C22_Witness ==
    /\ InSession
    /\ totalChunks = 2
    /\ AcceptedIdx = {0}
    /\ pc = "chunk_wait"
    /\ chunkIndex = 1
    /\ postsAt = 3
    /\ nChunkPosts = 2 * MAX_RETRIES

\* C23: a timer is pending only during a backoff. The k-th failed POST of a
\* chunk (k = 1, 2) is followed by a wait of 1000 ms * k, after which the
\* while loop is entered again for the same chunk; the third failed POST is
\* followed by no wait, and the upload returns its failure.
C23_Backoff ==
    /\ [](InSession => (delay # 0 <=> pc = "backoff"))
    /\ [][(InSession /\ pc = "chunk_wait" /\ failsAt' = failsAt + 1) =>
            \/ /\ failsAt' \in {1, 2}
               /\ pc' = "backoff"
               /\ delay' = BACKOFF_MS * failsAt'
            \/ /\ failsAt' = MAX_RETRIES
               /\ pc' = "returned"
               /\ delay' = 0
               /\ ~result'.success]_vars
    /\ [][(InSession /\ pc = "backoff") =>
            /\ pc' = "while"
            /\ chunkIndex' = chunkIndex
            /\ inflight' = inflight]_vars

\* The second POST of the second chunk has failed: 2000 ms are being waited.
C23_Witness ==
    /\ InSession
    /\ pc = "backoff"
    /\ chunkIndex = 1
    /\ failsAt = 2
    /\ ~success
    /\ delay = 2 * BACKOFF_MS

\* The backend answered the forwarded request with a 2xx status.
BackendSucceeded == backendAnswer.kind \in {"ok", "not_json"}

\* C24 (as stated): the handler's answer is the backend's JSON with status
\* 200 after every 2xx answer of the backend, the backend's status after a
\* non-2xx answer, and 500 'Proxy server error' after a rejected or aborted
\* fetch; a request is forwarded at most once.
C24_Original ==
    /\ nForwarded <= 1
    /\ proxyPc = "responded" =>
         /\ BackendSucceeded => proxyResponse = ResultResponse(backendAnswer.text)
         /\ backendAnswer.kind = "http" =>
               proxyResponse.status = backendAnswer.status
         /\ backendAnswer.kind \in {"rejected", "aborted"} =>
               proxyResponse = ProxyErrorResponse(backendAnswer.text)

\* C24 (amended): every run of the handler ends with a JSON response. A 2xx
\* answer whose body parses as JSON is passed on with status 200; a non-2xx
\* answer gives the backend's status; everything the try block throws gives
\* 500 'Proxy server error' with the message as details: a rejected fetch, the
\* abort of the timer, a 2xx body that is no JSON, and a request whose form
\* data cannot be read (which is answered without forwarding). A request is
\* forwarded at most once, and the answer follows the backend's in one step.
C24_Amended ==
    /\ [](/\ nForwarded <= 1
          /\ Cardinality(backendInflight) <= 1
          /\ proxyPc = "responded" =>
               /\ proxyResponse # NoResponse
               /\ backendInflight = {}
               /\ backendAnswer.kind = "ok" =>
                     proxyResponse = ResultResponse(backendAnswer.text)
               /\ backendAnswer.kind = "not_json" =>
                     proxyResponse = ProxyErrorResponse(JSON_MESSAGE)
               /\ backendAnswer.kind = "http" =>
                     /\ proxyResponse.status = backendAnswer.status
                     /\ proxyResponse.status \in BackendErrors
                     /\ ~proxyResponse.body.success
               /\ backendAnswer.kind \in {"rejected", "aborted"} =>
                     proxyResponse = ProxyErrorResponse(backendAnswer.text)
               /\ backendAnswer.kind = "none" =>
                     /\ nForwarded = 0
                     /\ proxyResponse = ProxyErrorResponse(FORMDATA_MESSAGE))
    /\ [][(proxyPc = "backend_wait" /\ backendInflight' # backendInflight) =>
            (proxyPc' = "responded" /\ nForwarded' = nForwarded)]_vars

\* The timer fired while the backend had not answered: the handler has
\* answered 500 with the abort's message, having forwarded the request once.
C24_Witness ==
    /\ proxyPc = "responded"
    /\ Len(formData) = 1
    /\ nForwarded = 1
    /\ backendAnswer.kind = "aborted"
    /\ ~timeoutId
    /\ proxyResponse.status = 500
    /\ proxyResponse.body.error = "Proxy server error"
    /\ proxyResponse.body.details = ABORT_MESSAGE

\* An uploadFile call made directly is running.
UploadFileRunning == entry = "uploadFile" /\ pc \notin {"idle", "done"}

\* C25: every uploadFile call ends: its promise is settled, and always by
\* resolving with the result, success true or false, never by rejecting. It
\* has then issued at most 1 init call, 3 * totalChunks chunk POSTs and 1
\* finalize call, and has left no request in flight.
C25_Terminates ==
    /\ UploadFileRunning ~> (entry = "uploadFile" /\ pc = "done")
    /\ [](entry = "uploadFile" =>
            /\ ret.state # "rejected"
            /\ nInit <= 1
            /\ nChunkPosts <= MAX_RETRIES * totalChunks
            /\ nFinalize <= 1
            /\ pc = "done" =>
                  /\ ret.state = "resolved"
                  /\ result.set
                  /\ ret.success = result.success
                  /\ ret.error = result.error
                  /\ inflight = {})

\* A four-chunk file whose upload used 3 POSTs for one chunk and ended in a
\* failure at finalize: the promise has resolved with success = false.
C25_Witness ==
    /\ entry = "uploadFile"
    /\ pc = "done"
    /\ totalChunks = 4
    /\ nInit = 1
    /\ nChunkPosts = 6
    /\ nFinalize = 1
    /\ ret.state = "resolved"
    /\ ~ret.success
    /\ ret.error.kind = "finalize_failed"

\* C26: a chunk index the proxy has accepted is never POSTed again in that
\* session. No chunk request in flight carries an accepted index; every POST
\* issued is for an index not accepted so far; and once success is set the
\* while loop is left without a POST, also when the progress callback threw
\* after the acceptance.
C26_NoRepost ==
    /\ [](InSession =>
            /\ \A r \in inflight :
                 r.ep = "/api/upload/chunk" => r.chunkIndex \notin AcceptedIdx
            /\ (success /\ pc \in {"while", "backoff"}) =>
                  chunkIndex \in AcceptedIdx)
    /\ [][(InSession /\ nChunkPosts' = nChunkPosts + 1) =>
            /\ chunkIndex \notin AcceptedIdx
            /\ ~success]_vars
    /\ [][(InSession /\ pc = "while" /\ success) =>
            (pc' = "for" /\ inflight' = inflight
               /\ nChunkPosts' = nChunkPosts)]_vars

\* The first POST of the second chunk was accepted and the callback threw on
\* its report: the counter is at 1 with no failed POST, and the wait is over.
C26_Witness ==
    /\ InSession
    /\ pc = "while"
    /\ chunkIndex = 1
    /\ AcceptedIdx = {0, 1}
    /\ success
    /\ failsAt = 0
    /\ retries = 1
    /\ nChunkPosts = 2

\* uploadFile has returned, and the proxy played its part: init succeeded,
\* every chunk index POSTed was accepted, and no finalize call failed.
ProxyAcceptedAll ==
    /\ InSession
    /\ result.set
    /\ ~initFailed
    /\ posted = AcceptedIdx
    /\ result.error.kind \notin {"finalize_failed", "network"}

\* C27 (as stated): when init succeeds, every chunk is accepted within its 3
\* attempts and finalize succeeds, the result is success = true with the URL
\* of finalize, whether or not the progress callback throws.
C27_SuccessDespiteCallback ==
    ProxyAcceptedAll =>
      /\ result.success
      /\ result.finalUrl \in Urls
      /\ nFinalize = 1

\* C28 (as stated): uploadFiles accounts for every file exactly once. While
\* it runs, the files handled so far each have one entry, in results or in
\* errors; when it returns every file has been attempted, the entries of
\* results and errors together are as many as the files, and success is true
\* exactly when errors is empty.
C28_EveryFileOnce ==
    entry = "uploadFiles" =>
      /\ pc = "files_for" => Len(results) + Len(errors) = fileIdx - 1
      /\ pc = "done" =>
           /\ fileIdx = Len(files) + 1
           /\ Len(results) + Len(errors) = Len(files)
           /\ ret.state = "resolved"
           /\ ret.success <=> errors = <<>>

\* The running uploadDocuments call has passed validation and handed the
\* batch to uploadDocumentsChunked.
FileByFile ==
    /\ entry = "uploadDocuments"
    /\ pc \in {"udc_for", "udc_wait", "done"}
    /\ ValidationError(files) = NoError
    /\ UseChunkedUpload(files)

\* The artifact ids of the answers that carry any, in the order of the answers.
IdsInOrder(rs) ==
    LET withIds == SelectSeq(rs, LAMBDA r : r.artifact_ids # <<>>)
    IN [i \in 1..Len(withIds) |-> withIds[i].artifact_ids[1]]

\* C29: uploadDocumentsChunked POSTs the files to /api/upload-single one per
\* request, in list order, the next one only after the previous one was
\* answered 2xx. The first failed request rejects the call, and no request is
\* issued for a later file. The call resolves only when every file's request
\* succeeded, with success = true and the artifact ids of the answers in file
\* order.
C29_FailFast ==
    /\ [](FileByFile =>
            /\ nPosts <= Len(files)
            /\ Len(results) <= Len(files)
            /\ \A i \in 1..Len(results) :
                 results[i].artifact_ids \in {<<>>, <<files[i].name>>}
            /\ pc = "udc_wait" =>
                 /\ inflight = {SingleReq(files[fileIdx])}
                 /\ nPosts = fileIdx
                 /\ Len(results) = fileIdx - 1
                 /\ answer = NoError
            /\ pc # "udc_wait" => inflight = {}
            /\ (pc = "done" /\ ret.state = "rejected") =>
                 /\ answer # NoError
                 /\ nPosts = fileIdx
                 /\ Len(results) = fileIdx - 1
            /\ (pc = "done" /\ ret.state # "rejected") =>
                 /\ ret.state = "resolved"
                 /\ ret.success
                 /\ answer = NoError
                 /\ nPosts = Len(files)
                 /\ Len(results) = Len(files)
                 /\ ret.artifact_ids = IdsInOrder(results))
    /\ [][(FileByFile /\ answer # NoError) =>
            (inflight' = inflight /\ (nPosts' = nPosts \/ nPosts' = 0))]_vars

\* The first file of a batch of two was answered 413: the call is rejected
\* with one POST issued, none for the second file.
C29_Witness ==
    /\ FileByFile
    /\ Len(files) = 2
    /\ pc = "done"
    /\ ret.state = "rejected"
    /\ answer.kind = "upload_failed" /\ answer.n = 413
    /\ ret.error.name = files[1].name
    /\ nPosts = 1
    /\ results = <<>>

\* C30: whatever the outcome of the upload, a handleFileUpload call that
\* completes leaves isUploading false and uploadProgress empty, and has
\* appended one entry per file of its batch, in order, all 'uploaded' when
\* the upload resolved with success and all 'failed' otherwise; the entries of
\* earlier calls are as they were. While a call runs the list is untouched.
C30_Frame ==
    /\ [](~handling => (~isUploading /\ uploadProgress = EmptyMap))
    /\ [][(handling /\ ~handling') =>
            /\ ~isUploading'
            /\ uploadProgress' = EmptyMap
            /\ IF UploadSucceeded(ret)
               THEN AppendedAll("uploaded")
               ELSE AppendedAll("failed")]_vars
    /\ [][(handling /\ handling') => uploadedFiles' = uploadedFiles]_vars
    /\ [][(~handling /\ ~handling') => uploadedFiles' = uploadedFiles]_vars

\* The first call uploaded one file, the second call's batch of two failed:
\* three entries, the first as the first call left it.
C30_Witness ==
    /\ nUploads = 2
    /\ ~handling
    /\ ~isUploading
    /\ uploadProgress = EmptyMap
    /\ Len(uploadedFiles) = 3
    /\ uploadedFiles[1].status = "uploaded"
    /\ uploadedFiles[2].status = "failed"
    /\ uploadedFiles[3].status = "failed"
    /\ uploadStatus = "failed"

====
